---- MODULE Spec2Model ----
(***************************************************************************)
(* A model of pbsf: the pattern models (PatternSet, PatternTree,           *)
(* PatternGraph), the nested-word structures and the NestedWordSet.        *)
(*                                                                         *)
(* Conventions.  Python lists are TLA+ sequences; the Python index i is    *)
(* the TLA+ index i+1.  Vertex identifiers, positions of a nested word and *)
(* depths keep their Python (0-based) values.  None is the integer -1 and  *)
(* the "internal" sentinel of a MatchingRelation (-1 in the source) is -2. *)
(* A Python set of vertex identifiers is iterated in ascending order, as   *)
(* CPython does for small integers.                                        *)
(***************************************************************************)
EXTENDS Integers, Sequences, FiniteSets, TLC

\* ---------------------------------------------------------------- bounds
\* Number of update calls explored on one model instance.
MaxUpdates == 2
\* Number of update calls explored on one NestedWordSet.
MaxNwsUpdates == 3
\* _combine_nws calls made in a run of SpecCombine.
MaxCombines == 3
\* Depths of the chains whose words _combine_nws is given.
Depths == 1..3

\* Chain lengths and node payloads the chains are drawn from.
Lens == 1..3
Vals == {0, 2, 3}
\* The chains a NestedWordSet is fed: one or two nodes, the second from two payloads.
NwsChains == [1..1 -> Vals] \cup {<<a, b>> : a \in Vals, b \in {0, 3}}
\* The context sizes and node types a NestedWordSet is constructed with.
ContextSizes == 1..3
NwsNodeTypes == {"Sum", "StructuralProminence"}

None == -1

VARIABLES
    cfg,      \* construction parameters: model, node type, closest_match, context_size
    nodes,    \* PatternSet.nodes
    tree,     \* PatternTree.graph (a Digraph); the root is vertex 0
    graph,    \* PatternGraph.graph (a LayeredDigraph)
    nws,      \* NestedWordSet: nested_words, _context_queue, _combined_cache
    calls,    \* number of update calls made so far
    nestedword, \* a NestedWord: word and matching
    matching, \* a MatchingRelation: _return_successors and _call_predecessors
    segmenter, \* a SlidingWindow: window_size, window_fallback, step_size and flags
    dfa,      \* a DFA: states, symbols and transitions
    learned,  \* the chains a PatternSet or NestedWordSet was updated with, in order
    last      \* the last call: its name, argument, result and the state before it

vars == <<cfg, nodes, tree, graph, nws, matching, nestedword, segmenter, dfa, calls, learned,
          last>>

\* ------------------------------------------------------------- utilities
Min(S) == CHOOSE x \in S : \A y \in S : x <= y
Max(S) == CHOOSE x \in S : \A y \in S : x >= y
Abs(x) == IF x < 0 THEN -x ELSE x
Range(s) == {s[i] : i \in 1..Len(s)}
\* The elements of a set of integers as an ascending sequence (sorted()).
RECURSIVE Sorted(_)
Sorted(S) == IF S = {} THEN <<>> ELSE <<Min(S)>> \o Sorted(S \ {Min(S)})
Reversed(s) == [i \in 1..Len(s) |-> s[Len(s) + 1 - i]]

\* ----------------------------------------------------------------- nodes
\* A node is [depth, val]; val is the payload of a single frame:
\*   SumNode                   sums = <<val>>
\*   SlopeSignNode             slopes = <<val - 2>>
\*   StructuralProminenceNode  std = val, equal slopes and intercepts
NodeTypes == {"Sum", "SlopeSign", "StructuralProminence"}
Node(d, v) == [depth |-> d, val |-> v]
ChainNode(chain, d) == Node(d, chain[d + 1])

\* distance_threshold(depth) of the SumNode configuration.
DistanceThreshold(d) == 2
\* prominence_threshold(depth), in sixths (hpm's default is 0.5).
ProminenceThreshold(d) == 3

SlopeSign(n) == n.val - 2 >= 0

\* |max(std) / (min(std) + 1e-10) - 1|, in sixths.
ProminenceDistance(a, b) ==
    LET mx == IF a.val >= b.val THEN a.val ELSE b.val
        mn == IF a.val >= b.val THEN b.val ELSE a.val
    IN  IF mn = 0
        THEN IF mx = 0 THEN 6 ELSE 1000000
        ELSE (6 * (mx - mn)) \div mn

\* node.distance(other), for two nodes of the same depth.  SlopeSign: the
\* fraction of mismatching signs; Sum: mean |sums - sums'|;
\* StructuralProminence: |structural| + |prominence| (structural is 0 here).
Distance(kind, a, b) ==
    CASE kind = "Sum" -> Abs(a.val - b.val)
      [] kind = "SlopeSign" -> IF SlopeSign(a) # SlopeSign(b) THEN 1 ELSE 0
      [] OTHER -> ProminenceDistance(a, b)

\* node == other
NodeEq(kind, a, b) ==
    /\ a.depth = b.depth
    /\ CASE kind = "Sum" -> Distance(kind, a, b) <= DistanceThreshold(a.depth)
         [] kind = "SlopeSign" -> Distance(kind, a, b) = 0
         [] OTHER -> ProminenceDistance(a, b) <= ProminenceThreshold(a.depth)

\* SlopeSignNode.__hash__: the hash of the tuple of signs.
NodeHash(n) == IF SlopeSign(n) THEN 1 ELSE -1

\* ---------------------------------------------------- Digraph operations
EmptyDigraph == [vertices |-> <<>>, edges |-> <<>>]
VNode(G, v) == G.vertices[v + 1]
Outgoing(G, v) == G.edges[v + 1]

\* Digraph.add_vertex: the new identifier is len(vertices).
DigraphAddVertex(G, props) ==
    [G EXCEPT !.vertices = Append(@, props), !.edges = Append(@, {})]

\* Digraph.add_edge
DigraphAddEdge(G, from, to) ==
    [G EXCEPT !.edges[from + 1] = @ \cup {to}]

\* ------------------------------------------------------ matching strategy
\* _first_match: the first candidate, in iteration order, equivalent to node.
FirstMatch(kind, G, node, candidates) ==
    LET ms == {v \in candidates : NodeEq(kind, node, VNode(G, v))}
    IN  IF ms = {} THEN None ELSE Min(ms)

\* _best_match: the first candidate among the equivalent ones of least distance.
BestMatch(kind, G, node, candidates) ==
    LET ms == {v \in candidates : NodeEq(kind, node, VNode(G, v))}
        best == {v \in ms : \A w \in ms :
                    Distance(kind, node, VNode(G, v)) <= Distance(kind, node, VNode(G, w))}
    IN  IF ms = {} THEN None ELSE Min(best)

MatchStrategy(c, G, node, candidates) ==
    IF c.closest THEN BestMatch(c.kind, G, node, candidates)
    ELSE FirstMatch(c.kind, G, node, candidates)

\* ------------------------------------------------------------ PatternSet
\* Membership by identity of the stored node.
InNodeSet_Identity(kind, node, S) == node \in S

\* node in node_set: same hash and equal.
InNodeSet(kind, node, S) ==
    \E m \in S : NodeHash(m) = NodeHash(node) /\ NodeEq(kind, node, m)

RECURSIVE SetUpdateFrom(_, _, _, _, _)
\* The loop of PatternSet.update from depth d on: <<nodes, present>>.
SetUpdateFrom(kind, ns, chain, d, present) ==
    IF d >= Len(chain) THEN <<ns, present>>
    ELSE LET node == ChainNode(chain, d)
             was == InNodeSet(kind, node, ns[d + 1])
             ns2 == IF was THEN ns ELSE [ns EXCEPT ![d + 1] = @ \cup {node}]
         IN  SetUpdateFrom(kind, ns2, chain, d + 1, Append(present, was))

\* PatternSet.update: grow nodes to len(chain), then record and insert.
SetUpdate(kind, ns, chain) ==
    LET grown == [d \in 1..Max({Len(ns), Len(chain)}) |->
                    IF d <= Len(ns) THEN ns[d] ELSE {}]
    IN  SetUpdateFrom(kind, grown, chain, 0, <<>>)

\* PatternSet.contains: every node is in its depth set; missing depths are absent.
SetContains(kind, ns, chain) ==
    \A d \in 0..(Len(chain) - 1) :
        /\ d < Len(ns)
        /\ InNodeSet(kind, ChainNode(chain, d), ns[d + 1])

\* ----------------------------------------------------------- PatternTree
Root == 0
RootProps == [depth |-> -1, val |-> -1]
\* PatternTree.__init__: a Digraph holding the root vertex.
EmptyTree == DigraphAddVertex(EmptyDigraph, RootProps)

RECURSIVE TreeTraverse(_, _, _, _)
\* PatternTree.chain_to_vertices: follow matching children, stop at the
\* first node without a match.
TreeTraverse(c, T, chain, traversal) ==
    LET d == Len(traversal) - 1
    IN  IF d >= Len(chain) THEN traversal
        ELSE LET neighbours == Outgoing(T, traversal[Len(traversal)])
                 candidate == MatchStrategy(c, T, ChainNode(chain, d), neighbours)
             IN  IF candidate = None THEN traversal
                 ELSE TreeTraverse(c, T, chain, Append(traversal, candidate))

\* A traversal that never leaves the root.
TreeChainToVertices_RootOnly(c, T, chain) == <<Root>>

TreeChainToVertices(c, T, chain) == TreeTraverse(c, T, chain, <<Root>>)

RECURSIVE TreeGrow(_, _, _)
\* The while loop of PatternTree.update: <<graph, vertices>>.
TreeGrow(T, chain, vertices) ==
    IF Len(vertices) > Len(chain) THEN <<T, vertices>>
    ELSE LET current_vertex == vertices[Len(vertices)]
             next_vertex == Len(T.vertices)
             T1 == DigraphAddVertex(T, ChainNode(chain, Len(vertices) - 1))
             T2 == DigraphAddEdge(T1, current_vertex, next_vertex)
         IN  TreeGrow(T2, chain, Append(vertices, next_vertex))

\* PatternTree.update
TreeUpdate(c, T, chain) == TreeGrow(T, chain, TreeChainToVertices(c, T, chain))

\* A contains that is satisfied with a match of the first node.
TreeContains_FirstNodeOnly(c, T, chain) ==
    Len(TreeChainToVertices(c, T, chain)) >= 2

\* PatternTree.contains
TreeContains(c, T, chain) ==
    Len(TreeChainToVertices(c, T, chain)) = Len(chain) + 1

\* -------------------------------------------------------- LayeredDigraph
\* LayeredDigraph.__init__: one (root) layer, max_depth = 1.  layer[v + 1]
\* is the "layer" property of vertex v.
EmptyLayered ==
    [vertices |-> <<>>, edges |-> <<>>, layers |-> <<{}>>, layer |-> <<>>, max_depth |-> 1]

GetLayer(G, l) == G.layers[l + 1]
VLayer(G, v) == G.layer[v + 1]

\* LayeredDigraph._update_layer: leave the current layer (if any), allocate
\* a layer when len(_layers) <= layer, enter the layer.
UpdateLayer(G, v, l, assigned) ==
    LET removed == IF assigned
                   THEN [G.layers EXCEPT ![VLayer(G, v) + 1] = @ \ {v}]
                   ELSE G.layers
        grown == IF Len(removed) <= l THEN Append(removed, {}) ELSE removed
    IN  [G EXCEPT !.layers = [grown EXCEPT ![l + 1] = @ \cup {v}],
                  !.max_depth = IF Len(removed) <= l THEN @ + 1 ELSE @,
                  !.layer = IF assigned THEN [@ EXCEPT ![v + 1] = l] ELSE Append(@, l)]

\* LayeredDigraph.add_vertex: new vertices start in layer 0.
LayeredAddVertex(G, props) ==
    UpdateLayer([G EXCEPT !.vertices = Append(@, props), !.edges = Append(@, {})],
                Len(G.vertices), 0, FALSE)

\* The condition under which LayeredDigraph.add_edge raises ValueError.
AddEdgeRaises(G, from, to) ==
    IF VLayer(G, to) = 0 THEN Outgoing(G, to) # {}
    ELSE VLayer(G, to) # VLayer(G, from) + 1

\* An add_edge that leaves the target in its layer.
LayeredAddEdge_NoLift(G, from, to) == DigraphAddEdge(G, from, to)

\* LayeredDigraph.add_edge, when it does not raise: the edge is added and
\* the target enters the layer below the source's.
LayeredAddEdge(G, from, to) ==
    UpdateLayer(DigraphAddEdge(G, from, to), to, VLayer(G, from) + 1, TRUE)

\* ---------------------------------------------------------- PatternGraph
\* A lookup that searches only the parent's children.
FindMatchingVertex_ChildrenOnly(c, G, node, depth, parent) ==
    IF depth >= G.max_depth \/ parent = None THEN None
    ELSE MatchStrategy(c, G, node, Outgoing(G, parent))

\* A lookup that searches the whole layer at once.
FindMatchingVertex_LayerOnly(c, G, node, depth, parent) ==
    IF depth >= G.max_depth THEN None
    ELSE MatchStrategy(c, G, node, GetLayer(G, depth))

\* PatternGraph._find_matching_vertex: the parent's children first, then
\* every vertex of the layer.
FindMatchingVertex(c, G, node, depth, parent) ==
    IF depth >= G.max_depth THEN None
    ELSE LET child == IF parent # None
                      THEN MatchStrategy(c, G, node, Outgoing(G, parent))
                      ELSE None
         IN  IF child # None THEN child
             ELSE MatchStrategy(c, G, node, GetLayer(G, depth))

\* PatternGraph._check_connection
CheckConnection(G, v1, v2) ==
    IF v1 = None \/ v2 = None THEN FALSE ELSE v2 \in Outgoing(G, v1)

RECURSIVE GraphTraverse(_, _, _, _, _)
\* The loop of PatternGraph.chain_to_vertices: <<traversal, connection>>.
GraphTraverse(c, G, chain, traversal, connection) ==
    LET depth == Len(traversal)
    IN  IF depth >= Len(chain) THEN <<traversal, connection>>
        ELSE LET parent == IF depth > 0 THEN traversal[depth] ELSE None
                 matched == FindMatchingVertex(c, G, ChainNode(chain, depth), depth, parent)
                 conn == IF depth > 0
                         THEN Append(connection, CheckConnection(G, parent, matched))
                         ELSE connection
             IN  GraphTraverse(c, G, chain, Append(traversal, matched), conn)

GraphChainToVertices(c, G, chain) == GraphTraverse(c, G, chain, <<>>, <<>>)

RECURSIVE GraphFillGaps(_, _, _, _)
\* First loop of PatternGraph.update: a new vertex for every None position.
GraphFillGaps(G, chain, vertices, idx) ==
    IF idx >= Len(vertices) THEN <<G, vertices>>
    ELSE IF vertices[idx + 1] = None
         THEN GraphFillGaps(LayeredAddVertex(G, ChainNode(chain, idx)), chain,
                            [vertices EXCEPT ![idx + 1] = Len(G.vertices)], idx + 1)
         ELSE GraphFillGaps(G, chain, vertices, idx + 1)

RECURSIVE GraphConnect(_, _, _, _)
\* Second loop of PatternGraph.update: an edge for every unconnected pair;
\* stops at the first add_edge that raises.  [graph, raised]
GraphConnect(G, vertices, connections, idx) ==
    IF idx >= Len(connections) THEN [graph |-> G, raised |-> FALSE]
    ELSE IF connections[idx + 1] THEN GraphConnect(G, vertices, connections, idx + 1)
    ELSE IF AddEdgeRaises(G, vertices[idx + 1], vertices[idx + 2])
         THEN [graph |-> G, raised |-> TRUE]
         ELSE GraphConnect(LayeredAddEdge(G, vertices[idx + 1], vertices[idx + 2]),
                           vertices, connections, idx + 1)

\* PatternGraph.update: [graph, vertices, raised]
GraphUpdate(c, G, chain) ==
    LET found == GraphChainToVertices(c, G, chain)
        filled == GraphFillGaps(G, chain, found[1], 0)
        done == GraphConnect(filled[1], filled[2], found[2], 0)
    IN  [graph |-> done.graph, vertices |-> filled[2], raised |-> done.raised]

\* A contains that only asks for a matched vertex at every depth.
GraphContains_VerticesOnly(c, G, chain) ==
    \A i \in 1..Len(chain) : GraphChainToVertices(c, G, chain)[1][i] # None

\* PatternGraph.contains
GraphContains(c, G, chain) ==
    LET found == GraphChainToVertices(c, G, chain)
    IN  /\ \A i \in 1..Len(found[1]) : found[1][i] # None
        /\ \A i \in 1..Len(found[2]) : found[2][i]

\* ------------------------------------------------------ MatchingRelation
\* A relation is [succ, pred]: _return_successors and _call_predecessors.
\* Unset is the source's -1 ("not a call" / "not a return"); None is pending.
Unset == -2
NewMatching(length) ==
    [succ |-> [i \in 1..length |-> Unset], pred |-> [i \in 1..length |-> Unset]]
MLen(M) == Len(M.succ)

IsCall(M, i) == M.succ[i + 1] # Unset
IsReturn(M, i) == M.pred[i + 1] # Unset
IsInternal(M, i) == ~IsCall(M, i) /\ ~IsReturn(M, i)

\* get_match for a position that is not internal: the call's pair first.
GetMatch(M, i) ==
    IF IsCall(M, i) THEN <<i, M.succ[i + 1]>> ELSE <<M.pred[i + 1], i>>

GetMatches(M) == {GetMatch(M, i) : i \in {p \in 0..(MLen(M) - 1) : ~IsInternal(M, p)}}
GetPendingCalls(M) == {m[1] : m \in {x \in GetMatches(M) : x[2] = None}}
GetPendingReturns(M) == {m[2] : m \in {x \in GetMatches(M) : x[1] = None}}

\* Whether the match (i, j) crosses the existing match (call, ret): the
\* branches of _validate_crossing.
Crosses(i, j, call, ret) ==
    IF (i = None /\ call = None) \/ (j = None /\ ret = None) THEN FALSE
    ELSE IF i = None THEN (IF ret = None THEN call < j ELSE call < j /\ j < ret)
    ELSE IF j = None THEN (IF call = None THEN i < ret ELSE call < i /\ i < ret)
    ELSE IF call = None THEN i < ret /\ ret < j
    ELSE IF ret = None THEN i < call /\ call < j
    ELSE (i < call /\ call <= j /\ j <= ret) \/ (call < i /\ i <= ret /\ ret <= j)

\* _validate_crossing raises
ValidateCrossingRaises(M, i, j) ==
    \E m \in GetMatches(M) : Crosses(i, j, m[1], m[2])

\* _validate_properties raises: indices, order, positions, crossing.
ValidatePropertiesRaises(M, i, j) ==
    \/ i = None /\ j = None
    \/ i # None /\ j # None /\ i >= j
    \/ i # None /\ (i < 0 \/ i >= MLen(M))
    \/ j # None /\ (j < 0 \/ j >= MLen(M))
    \/ ValidateCrossingRaises(M, i, j)

\* set_match, when the validation passes.
SetMatch(M, call, ret) ==
    LET s == IF call # None THEN [M.succ EXCEPT ![call + 1] = ret] ELSE M.succ
        p == IF ret # None THEN [M.pred EXCEPT ![ret + 1] = call] ELSE M.pred
    IN  [M EXCEPT !.succ = s, !.pred = p]

\* extend
MExtend(M, length) ==
    [M EXCEPT !.succ = @ \o [i \in 1..length |-> Unset],
              !.pred = @ \o [i \in 1..length |-> Unset]]

\* The value standing for a raised ValueError.
Raised == [raised |-> TRUE]
IsRaised(x) == x = Raised

\* set_match on a relation that may already stand for a raised error.
TrySetMatch(M, call, ret) ==
    IF IsRaised(M) THEN Raised
    ELSE IF ValidatePropertiesRaises(M, call, ret) THEN Raised
    ELSE SetMatch(M, call, ret)

RECURSIVE SliceFrom(_, _, _, _, _)
\* The loop of MatchingRelation.__getitem__ for the slice [start, stop).
SliceFrom(M, start, stop, pos, sub) ==
    IF pos >= stop \/ IsRaised(sub) THEN sub
    ELSE LET length == stop - start
             next ==
               IF IsCall(M, pos)
               THEN LET ret == IF M.succ[pos + 1] = None THEN None
                               ELSE IF M.succ[pos + 1] - start >= length THEN None
                               ELSE M.succ[pos + 1] - start
                    IN  TrySetMatch(sub, pos - start, ret)
               ELSE IF IsReturn(M, pos)
               THEN LET call == IF M.pred[pos + 1] = None THEN None
                                ELSE IF M.pred[pos + 1] - start < 0 THEN None
                                ELSE M.pred[pos + 1] - start
                    IN  IF call = None THEN TrySetMatch(sub, call, pos - start) ELSE sub
               ELSE sub
         IN  SliceFrom(M, start, stop, pos + 1, next)

\* MatchingRelation.__getitem__(slice(start, stop))
MSlice(M, start, stop) ==
    IF start < 0 \/ stop > MLen(M) \/ start > stop THEN Raised
    ELSE SliceFrom(M, start, stop, start, NewMatching(stop - start))

\* ------------------------------------------------------------ NestedWord
\* A nested word is [word, succ, pred]: the word and its matching relation.
\* __eq__ compares the word and the matching: it is equality of the record.
NW(word, M) == [word |-> word, succ |-> M.succ, pred |-> M.pred]
Matching(nw) == [succ |-> nw.succ, pred |-> nw.pred]
EmptyNW == NW(<<>>, NewMatching(0))
NWLen(nw) == Len(nw.word)

\* The tokens of a tagged sequence: "<", ">" and symbols.
CallTag == [tag |-> "<", sym |-> 0]
ReturnTag == [tag |-> ">", sym |-> 0]
\* The symbol that is the string "<" itself: as a token it is the call tag.
TagSymbol == -5
Sym(v) == IF v = TagSymbol THEN CallTag ELSE [tag |-> "s", sym |-> v]

RECURSIVE ToTaggedFrom(_, _)
ToTaggedFrom(nw, i) ==
    IF i >= NWLen(nw) THEN <<>>
    ELSE (IF IsCall(Matching(nw), i) THEN <<CallTag>> ELSE <<>>)
         \o <<Sym(nw.word[i + 1])>>
         \o (IF IsReturn(Matching(nw), i) THEN <<ReturnTag>> ELSE <<>>)
         \o ToTaggedFrom(nw, i + 1)

\* NestedWord.to_tagged
ToTagged(nw) == ToTaggedFrom(nw, 0)

\* NestedWord.__hash__: the hash of the tagged sequence.
NWHash(nw) == ToTagged(nw)

RECURSIVE UntagFrom(_, _)
UntagFrom(tagged, i) ==
    IF i > Len(tagged) THEN <<>>
    ELSE (IF tagged[i].tag = "s" THEN <<tagged[i].sym>> ELSE <<>>) \o UntagFrom(tagged, i + 1)

RECURSIVE PopAll(_, _)
\* The closing loop of from_tagged_sequence: unclosed calls become pending.
PopAll(M, stack) ==
    IF stack = <<>> THEN M
    ELSE PopAll(TrySetMatch(M, stack[Len(stack)], None), SubSeq(stack, 1, Len(stack) - 1))

RECURSIVE ParseFrom(_, _, _, _, _)
\* The main loop of from_tagged_sequence.
ParseFrom(tagged, i, stack, counter, M) ==
    IF IsRaised(M) THEN Raised
    ELSE IF i > Len(tagged) THEN PopAll(M, stack)
    ELSE IF tagged[i].tag = "<"
         THEN ParseFrom(tagged, i + 1, Append(stack, counter), counter, M)
    ELSE IF tagged[i].tag = ">"
         THEN LET call == IF Len(stack) > 0 THEN stack[Len(stack)] ELSE None
                  rest == IF Len(stack) > 0 THEN SubSeq(stack, 1, Len(stack) - 1) ELSE stack
              IN  ParseFrom(tagged, i + 1, rest, counter,
                            TrySetMatch(M, call, Max({0, counter - 1})))
    ELSE ParseFrom(tagged, i + 1, stack, counter + 1, M)

\* NestedWord.from_tagged_sequence (Raised when a set_match raises).
FromTaggedSequence(tagged) ==
    LET word == UntagFrom(tagged, 1)
        M == ParseFrom(tagged, 1, <<>>, 0, NewMatching(Len(word)))
    IN  IF IsRaised(M) THEN Raised ELSE NW(word, M)

\* NestedWord.__add__: splice of the tagged sequences.
NWAdd(a, b) ==
    IF IsRaised(a) \/ IsRaised(b) THEN Raised
    ELSE FromTaggedSequence(ToTagged(a) \o ToTagged(b))

\* NestedWord.add_internals
AddInternals(nw, symbols) ==
    NW(nw.word \o symbols, MExtend(Matching(nw), Len(symbols)))

RECURSIVE MarkCalls(_, _, _)
MarkCalls(M, length, pos) ==
    IF pos > length \/ IsRaised(M) THEN M
    ELSE MarkCalls(TrySetMatch(M, MLen(M) - pos, None), length, pos + 1)

\* NestedWord.add_calls: appended as internals, then marked pending calls
\* from the last position backwards.
AddCalls(nw, symbols) ==
    LET ext == AddInternals(nw, symbols)
        M == MarkCalls(Matching(ext), Len(symbols), 1)
    IN  IF IsRaised(M) THEN Raised ELSE NW(ext.word, M)

RECURSIVE MatchReturns(_, _, _, _)
MatchReturns(M, pending, count, i) ==
    IF i >= count \/ IsRaised(M) THEN M
    ELSE LET call == IF i < Len(pending) THEN pending[i + 1] ELSE None
             ret == MLen(M) - count + i
         IN  MatchReturns(TrySetMatch(M, call, ret), pending, count, i + 1)

\* NestedWord.add_returns: the new positions are matched to the pending
\* calls (as they were before the first match), most recent first.
AddReturns(nw, symbols) ==
    LET ext == AddInternals(nw, symbols)
        pending == Reversed(Sorted(GetPendingCalls(Matching(ext))))
        M == MatchReturns(Matching(ext), pending, Len(symbols), 0)
    IN  IF IsRaised(M) THEN Raised ELSE NW(ext.word, M)

\* NestedWord.__getitem__(slice(start, None))
NWTail(nw, start) ==
    LET M == MSlice(Matching(nw), start, NWLen(nw))
    IN  IF IsRaised(M) THEN Raised ELSE NW(SubSeq(nw.word, start + 1, NWLen(nw)), M)

\* --------------------------------------------------------- NestedWordSet
RECURSIVE CloseEach(_, _, _)
\* The loop of _close_positions: one add_return per position, labelled with
\* the symbol at that position.
CloseEach(nw, positions, i) ==
    IF i > Len(positions) \/ IsRaised(nw) THEN nw
    ELSE CloseEach(AddReturns(nw, <<nw.word[positions[i] + 1]>>), positions, i + 1)

\* A close that labels the returns in ascending order of call position.
ClosePositions_Ascending(nw, number) ==
    LET pending == Sorted(GetPendingCalls(Matching(nw)))
    IN  CloseEach(nw, SubSeq(pending, Len(pending) - number + 1, Len(pending)), 1)

\* NestedWordSet._close_positions
ClosePositions(nw, number) ==
    LET pending == Sorted(GetPendingCalls(Matching(nw)))
    IN  IF number <= 0 \/ number > Len(pending) THEN Raised
        ELSE CloseEach(nw, Reversed(SubSeq(pending, Len(pending) - number + 1, Len(pending))), 1)

\* The symbols at a sequence of positions.
SymbolsAt(nw, positions) == [i \in 1..Len(positions) |-> nw.word[positions[i] + 1]]

\* The first index (0-based) at which the zipped symbol lists differ, or None.
FirstDifference(s1, s2) ==
    LET common == IF Len(s1) <= Len(s2) THEN Len(s1) ELSE Len(s2)
        diff == {d \in 0..(common - 1) : s1[d + 1] # s2[d + 1]}
    IN  IF diff = {} THEN None ELSE Min(diff)

\* An end of _combine_nws that always appends nw2's last symbol.
AppendLast_Always(nw, nw2) == AddInternals(nw, <<nw2.word[Len(nw2.word)]>>)

\* The end of _combine_nws: nw2's last symbol is appended as an internal when
\* it differs from the last symbol of the word built so far.
AppendLast(nw, nw2) ==
    IF nw.word[Len(nw.word)] # nw2.word[Len(nw2.word)]
    THEN AddInternals(nw, <<nw2.word[Len(nw2.word)]>>)
    ELSE nw

\* The body of _combine_nws after the cache lookup (nw1 is not empty).
CombineBody(nw1, nw2) ==
    LET p1 == Sorted(GetPendingCalls(Matching(nw1)))
        p2 == Sorted(GetPendingCalls(Matching(nw2)))
        s1 == SymbolsAt(nw1, p1)
        s2 == SymbolsAt(nw2, p2)
        copy == NWAdd(EmptyNW, nw1)
        depth == FirstDifference(s1, s2)
        looped == IF depth = None \/ IsRaised(copy) THEN copy
                  ELSE LET closed == ClosePositions(copy, Len(s1) - depth)
                       IN  NWAdd(closed, NWTail(nw2, p2[depth + 1]))
    IN  IF IsRaised(looped) THEN Raised ELSE AppendLast(looped, nw2)

\* The value _combine_nws computes, the cache left aside.
Combine(nw1, nw2) == IF NWLen(nw1) = 0 THEN nw2 ELSE CombineBody(nw1, nw2)

\* A cache looked up by the first word of the pair alone.
CacheHit_FirstKeyOnly(cache, nw1, nw2) == {e \in cache : e.key1 = nw1}

\* The cache is a set of entries [key1, key2, value].
CacheHit(cache, nw1, nw2) == {e \in cache : e.key1 = nw1 /\ e.key2 = nw2}

\* A combination that is computed every time and never stored.
CombineNws_NoStore(cache, nw1, nw2) == [value |-> Combine(nw1, nw2), cache |-> cache]

\* NestedWordSet._combine_nws: [value, cache]; a raised error stores nothing.
CombineNws(cache, nw1, nw2) ==
    IF NWLen(nw1) = 0 THEN [value |-> nw2, cache |-> cache]
    ELSE IF CacheHit(cache, nw1, nw2) # {}
         THEN [value |-> (CHOOSE e \in CacheHit(cache, nw1, nw2) : TRUE).value, cache |-> cache]
    ELSE CHOOSE out \in
            {IF IsRaised(nw) THEN [value |-> Raised, cache |-> cache]
             ELSE [value |-> nw,
                   cache |-> cache \cup {[key1 |-> nw1, key2 |-> nw2, value |-> nw]}] :
                nw \in {CombineBody(nw1, nw2)}} : TRUE

RECURSIVE CombineFold(_, _, _, _)
\* The left fold of _combine_nws over a list of nested words: [value, cache].
CombineFold(cache, result, nws_, i) ==
    IF i > Len(nws_) \/ IsRaised(result) THEN [value |-> result, cache |-> cache]
    ELSE CHOOSE out \in {CombineFold(step.cache, step.value, nws_, i + 1) :
                            step \in {CombineNws(cache, result, nws_[i])}} : TRUE

\* NestedWordSet._combine_queue
CombineQueue(cache, queue) == CombineFold(cache, EmptyNW, queue, 1)

\* The vertices _chain_to_nw reads from the pattern model.
PatternVertices(c, T, G, chain) ==
    IF c.pattern_model = "PatternGraph" THEN GraphChainToVertices(c, G, chain)[1]
    ELSE TreeChainToVertices(c, T, chain)

\* NestedWordSet._chain_to_nw: all vertices but the last as calls, the last
\* as an internal.
VerticesToNw(vertices) ==
    LET calls_ == IF Len(vertices) > 1
                  THEN AddCalls(EmptyNW, SubSeq(vertices, 1, Len(vertices) - 1))
                  ELSE EmptyNW
    IN  AddInternals(calls_, <<vertices[Len(vertices)]>>)

ChainToNw(c, T, G, chain) == VerticesToNw(PatternVertices(c, T, G, chain))

\* ===================================================== the state machines
Chains(lens) == UNION {[1..n -> Vals] : n \in lens}
\* The chains the pattern models are updated and queried with: any payload at
\* depth 1, the two extreme payloads at depths 0 and 2.
ModelChains ==
    {c \in Chains(Lens) : c[1] \in {0, 3} /\ (Len(c) = 3 => c[3] \in {0, 3})}

EmptyNws == [nested_words |-> {}, context_queue |-> <<>>, combined_cache |-> {}]
NoCall == [op |-> "init", model |-> "", chain |-> <<>>, ret |-> <<>>, raised |-> FALSE,
           pre |-> <<>>]

\* PatternSet needs hashable nodes: only SlopeSignNode defines __hash__.
ModelConfigs ==
    {[model |-> "PatternSet", kind |-> "SlopeSign", closest |-> FALSE,
      pattern_model |-> "", context_size |-> 0]}
    \cup {[model |-> m, kind |-> k, closest |-> b, pattern_model |-> "", context_size |-> 0] :
            m \in {"PatternTree", "PatternGraph"}, k \in NodeTypes, b \in BOOLEAN}

\* The state after construction of one pattern model.
Init ==
    /\ cfg \in ModelConfigs
    /\ nodes = <<>>
    /\ tree = EmptyTree
    /\ graph = EmptyLayered
    /\ nws = EmptyNws
    /\ calls = 0
    /\ matching = NewMatching(0)
    /\ nestedword = EmptyNW
    /\ segmenter = <<>>
    /\ dfa = <<>>
    /\ learned = <<>>
    /\ last = NoCall

\* PatternSet.update(chain)
PatternSetUpdate ==
    /\ cfg.model = "PatternSet"
    /\ calls < MaxUpdates
    /\ \E chain \in ModelChains :
        LET r == SetUpdate(cfg.kind, nodes, chain)
        IN  /\ nodes' = r[1]
            /\ last' = [op |-> "update", model |-> cfg.model, chain |-> chain, ret |-> r[2],
                        raised |-> FALSE, pre |-> nodes]
            /\ learned' = Append(learned, chain)
    /\ calls' = calls + 1
    /\ UNCHANGED <<cfg, segmenter, dfa, nestedword, matching, tree, graph, nws>>

\* PatternTree.update(chain)
PatternTreeUpdate ==
    /\ cfg.model = "PatternTree"
    /\ calls < MaxUpdates
    /\ \E chain \in ModelChains :
        LET r == TreeUpdate(cfg, tree, chain)
        IN  /\ tree' = r[1]
            /\ last' = [op |-> "update", model |-> cfg.model, chain |-> chain, ret |-> r[2],
                        raised |-> FALSE, pre |-> tree]
    /\ calls' = calls + 1
    /\ UNCHANGED <<cfg, segmenter, dfa, nestedword, matching, nodes, graph, nws, learned>>

\* PatternGraph.update(chain)
PatternGraphUpdate ==
    /\ cfg.model = "PatternGraph"
    /\ calls < MaxUpdates
    /\ \E chain \in ModelChains :
        LET r == GraphUpdate(cfg, graph, chain)
        IN  /\ graph' = r.graph
            /\ last' = [op |-> "update", model |-> cfg.model, chain |-> chain,
                        ret |-> r.vertices, raised |-> r.raised, pre |-> graph]
    /\ calls' = calls + 1
    /\ UNCHANGED <<cfg, segmenter, dfa, nestedword, matching, nodes, tree, nws, learned>>

Next == PatternSetUpdate \/ PatternTreeUpdate \/ PatternGraphUpdate

Spec == Init /\ [][Next]_vars

\* model.contains(chain) on the current state of the configured model.
Contains(chain) ==
    CASE cfg.model = "PatternSet" -> SetContains(cfg.kind, nodes, chain)
      [] cfg.model = "PatternTree" -> TreeContains(cfg, tree, chain)
      [] OTHER -> GraphContains(cfg, graph, chain)

\* C1: immediately after update(c) returns, contains(c) is true, for the
\* three pattern models under both matching strategies.
C1_MembershipAfterInsert ==
    (last.op = "update" /\ ~last.raised) => Contains(last.chain)

\* The edges of a graph as a set of pairs.
EdgeSet(G) ==
    {e \in (0..(Len(G.vertices) - 1)) \X (0..(Len(G.vertices) - 1)) :
        e[2] \in Outgoing(G, e[1])}

\* The vertices of layer d of G that are equivalent to the chain's node at
\* depth d.
LayerMatches(G, chain, d) ==
    IF d >= G.max_depth THEN {}
    ELSE {v \in GetLayer(G, d) : NodeEq(cfg.kind, ChainNode(chain, d), VNode(G, v))}

\* The children of vertex p that are equivalent to the chain's node at depth d.
ChildMatches(G, chain, d, p) ==
    IF p = None THEN {}
    ELSE {v \in Outgoing(G, p) : NodeEq(cfg.kind, ChainNode(chain, d), VNode(G, v))}

\* The traversal PatternGraph.chain_to_vertices returns on the current graph.
Traversal(chain) == GraphChainToVertices(cfg, graph, chain)[1]

\* C7: PatternGraph.contains(chain) is true exactly when a vertex is matched
\* at every depth and every two consecutively matched vertices are joined by
\* an edge of the graph.
C7_ContainsIffPath ==
    cfg.model = "PatternGraph" =>
        \A chain \in ModelChains :
            GraphContains(cfg, graph, chain) <=>
                /\ \A i \in 1..Len(chain) : Traversal(chain)[i] # None
                /\ \A i \in 1..(Len(chain) - 1) :
                    Traversal(chain)[i + 1] \in Outgoing(graph, Traversal(chain)[i])

\* Some chain is matched at every depth and still not contained: an edge is
\* missing.
C7_Witness ==
    /\ cfg.model = "PatternGraph" /\ last.op = "update"
    /\ \E chain \in ModelChains :
        /\ Len(chain) = 3
        /\ \A i \in 1..Len(chain) : Traversal(chain)[i] # None
        /\ Traversal(chain)[2] \in Outgoing(graph, Traversal(chain)[1])
        /\ Traversal(chain)[3] \notin Outgoing(graph, Traversal(chain)[2])
        /\ ~GraphContains(cfg, graph, chain)

\* C8: PatternGraph.update allocates a vertex exactly at the depths where no
\* vertex of the layer matches, reuses a matching vertex of the layer
\* otherwise (whatever branch it is on), and adds exactly the missing edges
\* between consecutive vertices of the chain.
C8_UpdateReusesAndConnects ==
    (cfg.model = "PatternGraph" /\ last.op = "update") =>
        LET pre == last.pre
            old == Len(last.pre.vertices)
            gaps == {d \in 0..(Len(last.chain) - 1) : LayerMatches(pre, last.chain, d) = {}}
        IN  /\ ~last.raised
            /\ \A d \in 0..(Len(last.chain) - 1) :
                IF d \in gaps
                THEN /\ last.ret[d + 1] >= old
                     /\ VNode(graph, last.ret[d + 1]) = ChainNode(last.chain, d)
                ELSE last.ret[d + 1] \in LayerMatches(pre, last.chain, d)
            /\ Len(graph.vertices) = old + Cardinality(gaps)
            /\ SubSeq(graph.vertices, 1, old) = pre.vertices
            /\ EdgeSet(graph) = EdgeSet(pre) \cup
                    {<<last.ret[i], last.ret[i + 1]>> : i \in 1..(Len(last.chain) - 1)}

\* A chain equal to the first chain at depths 0 and 2 and different at depth 1
\* adds one vertex, at depth 1, and an edge from it to the depth-2 vertex.
C8_Witness ==
    /\ cfg.model = "PatternGraph" /\ last.op = "update" /\ ~last.raised
    /\ Len(last.pre.vertices) = 3 /\ Len(last.chain) = 3
    /\ VNode(last.pre, 0).val = last.chain[1]
    /\ VNode(last.pre, 1).val # last.chain[2]
    /\ VNode(last.pre, 2).val = last.chain[3]
    /\ last.ret = <<0, 3, 2>>
    /\ Len(graph.vertices) = 4
    /\ EdgeSet(graph) = {<<0, 1>>, <<1, 2>>, <<0, 3>>, <<3, 2>>}

\* C9: at each depth d >= 1 the traversal takes a matching child of the vertex
\* matched at depth d - 1 when there is one, and a matching vertex of layer d
\* only when no child matches.
C9_ChildrenFirst ==
    cfg.model = "PatternGraph" =>
        \A chain \in ModelChains : \A d \in 1..(Len(chain) - 1) :
            LET kids == ChildMatches(graph, chain, d, Traversal(chain)[d])
                layer == LayerMatches(graph, chain, d)
                v == Traversal(chain)[d + 1]
            IN  IF kids # {} THEN v \in kids
                ELSE IF layer # {} THEN v \in layer
                ELSE v = None

\* Under the closest-match strategy a matching child is taken although a
\* vertex of the same layer that is no child is strictly closer.
C9_Witness ==
    /\ cfg.model = "PatternGraph" /\ cfg.closest
    /\ \E chain \in ModelChains : \E d \in 1..(Len(chain) - 1) :
        /\ Traversal(chain)[d + 1] \in ChildMatches(graph, chain, d, Traversal(chain)[d])
        /\ \E w \in LayerMatches(graph, chain, d) :
            /\ w \notin Outgoing(graph, Traversal(chain)[d])
            /\ Distance(cfg.kind, ChainNode(chain, d), VNode(graph, w))
                < Distance(cfg.kind, ChainNode(chain, d),
                           VNode(graph, Traversal(chain)[d + 1]))

\* C10: every edge u -> v of the graph has layer(v) = layer(u) + 1, and no
\* update fails on a layer conflict.
C10_Layering ==
    cfg.model = "PatternGraph" =>
        /\ ~last.raised
        /\ \A e \in EdgeSet(graph) : VLayer(graph, e[2]) = VLayer(graph, e[1]) + 1

\* A vertex of layer 1 has been given a second parent.
C10_Witness ==
    /\ cfg.model = "PatternGraph" /\ last.op = "update" /\ ~last.raised
    /\ \E v \in 0..(Len(graph.vertices) - 1) :
        /\ VLayer(graph, v) = 1
        /\ Cardinality({e \in EdgeSet(graph) : e[2] = v}) = 2
        /\ {e \in EdgeSet(last.pre) : e[2] = v} # {}

SeenAt(d) == {ChainNode(learned[i], d) : i \in {j \in 1..Len(learned) : Len(learned[j]) > d}}

\* The equivalence classes of a set of nodes.
Classes(S) == {{m \in S : NodeEq(cfg.kind, n, m)} : n \in S}

\* C12: PatternSet.update returns, per depth, whether a node equal to
\* chain[d] was in nodes[d] before the call and inserts the node only when it
\* was absent; nodes[d] holds exactly one node of every equivalence class seen
\* at depth d.
C12_SetUpdate ==
    (cfg.model = "PatternSet" /\ last.op = "update") =>
        LET pre == last.pre
            L == Len(last.chain)
            was(d) == d < Len(pre) /\
                      \E m \in pre[d + 1] : NodeEq(cfg.kind, ChainNode(last.chain, d), m)
        IN  /\ Len(last.ret) = L
            /\ Len(nodes) = Max({Len(pre), L})
            /\ \A d \in 0..(L - 1) :
                /\ last.ret[d + 1] = was(d)
                /\ nodes[d + 1] = (IF d < Len(pre) THEN pre[d + 1] ELSE {}) \cup
                                  (IF was(d) THEN {} ELSE {ChainNode(last.chain, d)})
            /\ \A d \in L..(Len(pre) - 1) : nodes[d + 1] = pre[d + 1]
            /\ \A d \in 0..(Len(nodes) - 1) :
                /\ nodes[d + 1] \subseteq SeenAt(d)
                /\ Cardinality(nodes[d + 1]) = Cardinality(Classes(SeenAt(d)))
                /\ \A C \in Classes(SeenAt(d)) : Cardinality(C \cap nodes[d + 1]) = 1

\* The same chain of three nodes inserted twice: all false, then all true,
\* one node per depth.
C12_Witness ==
    /\ cfg.model = "PatternSet" /\ last.op = "update"
    /\ Len(learned) = 2 /\ learned[1] = learned[2] /\ Len(last.chain) = 3
    /\ last.ret = <<TRUE, TRUE, TRUE>>
    /\ \A d \in 1..3 : Cardinality(nodes[d]) = 1

\* ------------------------------------------- the NestedWordSet state machine
NwsConfigs ==
    {[model |-> "NestedWordSet", kind |-> k, closest |-> b, pattern_model |-> pm,
      context_size |-> n] :
        k \in NwsNodeTypes, b \in BOOLEAN, pm \in {"PatternGraph", "PatternTree"},
        n \in ContextSizes}

\* NestedWordSet.__init__
InitNws ==
    /\ cfg \in NwsConfigs
    /\ nodes = <<>>
    /\ tree = EmptyTree
    /\ graph = EmptyLayered
    /\ nws = EmptyNws
    /\ calls = 0
    /\ matching = NewMatching(0)
    /\ nestedword = EmptyNW
    /\ segmenter = <<>>
    /\ dfa = <<>>
    /\ learned = <<>>
    /\ last = [op |-> "init", chain |-> <<>>, ret |-> <<>>, raised |-> FALSE, nw |-> EmptyNW,
               learn |-> <<>>, words |-> <<>>]

\* self.patterns.update(chain): [tree, graph, raised]
PatternsUpdate(c, T, G, chain) ==
    IF c.pattern_model = "PatternGraph"
    THEN CHOOSE out \in {[tree |-> T, graph |-> r.graph, raised |-> r.raised] :
                            r \in {GraphUpdate(c, G, chain)}} : TRUE
    ELSE [tree |-> TreeUpdate(c, T, chain)[1], graph |-> G, raised |-> FALSE]

\* A queue that never drops its oldest word.
Enqueue_NeverDrops(queue, size, nw) == Append(queue, nw)

\* A full queue that keeps its words and refuses the new one.
Enqueue_KeepsOldest(queue, size, nw) ==
    IF Len(queue) >= size THEN queue ELSE Append(queue, nw)

\* The queue after the new word is enqueued (the oldest dropped when full).
Enqueue(queue, size, nw) ==
    Append(IF Len(queue) >= size THEN Tail(queue) ELSE queue, nw)

\* A record with the fields of extra added to (or replacing) those of r.
Merge(r, extra) ==
    [x \in DOMAIN r \cup DOMAIN extra |-> IF x \in DOMAIN extra THEN extra[x] ELSE r[x]]

\* The body of NestedWordSet.update for a non-empty chain of nodes.  last.nw
\* is the word _chain_to_nw built for the chain; last.words are the words
\* enqueued so far, oldest first; last.learn is what learn()
\* over the chains so far has accumulated; info names the calling operation.
NwsCall(chain, info) ==
    \E p \in {PatternsUpdate(cfg, tree, graph, chain)} :
    \E nw \in {ChainToNw(cfg, p.tree, p.graph, chain)} :
    \E queue \in {Enqueue(nws.context_queue, cfg.context_size, nw)} :
    \E folded \in {CombineQueue(nws.combined_cache, queue)} :
        /\ tree' = p.tree
        /\ graph' = p.graph
        /\ learned' = Append(learned, chain)
        /\ IF p.raised
           THEN /\ nws' = nws
                /\ last' = Merge([chain |-> chain, ret |-> <<>>, raised |-> TRUE,
                                  nw |-> EmptyNW, learn |-> last.learn,
                                  words |-> last.words], info)
           ELSE IF Len(queue) # cfg.context_size
           THEN /\ nws' = [nws EXCEPT !.context_queue = queue]
                /\ last' = Merge([chain |-> chain, ret |-> <<>>, raised |-> FALSE,
                                  nw |-> nw, learn |-> last.learn,
                                  words |-> Append(last.words, nw)], info)
           ELSE IF IsRaised(folded.value)
           THEN /\ nws' = [nws EXCEPT !.context_queue = queue,
                                      !.combined_cache = folded.cache]
                /\ last' = Merge([chain |-> chain, ret |-> <<>>, raised |-> TRUE,
                                  nw |-> nw, learn |-> last.learn,
                                  words |-> Append(last.words, nw)], info)
           ELSE /\ nws' = [nested_words |-> nws.nested_words \cup {folded.value},
                           context_queue |-> queue,
                           combined_cache |-> folded.cache]
                /\ last' = Merge([chain |-> chain, ret |-> <<folded.value>>,
                                  raised |-> FALSE, nw |-> nw,
                                  learn |-> Append(last.learn, folded.value),
                                  words |-> Append(last.words, nw)], info)

\* NestedWordSet.update(chain), for a non-empty chain.
NwsUpdate ==
    /\ cfg.model = "NestedWordSet"
    /\ calls < MaxNwsUpdates
    /\ \E chain \in NwsChains : NwsCall(chain, [op |-> "update"])
    /\ calls' = calls + 1
    /\ UNCHANGED <<cfg, segmenter, dfa, nestedword, matching, nodes>>

NextNws == NwsUpdate

SpecNws == InitNws /\ [][NextNws]_vars

\* The value NestedWordSet.contains(chains) returns in the current state,
\* for a list of context_size non-empty chains.
NwsContainsValue(chains) ==
    LET words == [i \in 1..Len(chains) |-> ChainToNw(cfg, tree, graph, chains[i])]
        folded == CombineFold(nws.combined_cache, EmptyNW, words, 1)
    IN  folded.value \in nws.nested_words

\* The windows of context_size consecutive chains learned so far.
LearnedWindows ==
    {SubSeq(learned, i, i + cfg.context_size - 1) :
        i \in 1..(Len(learned) - cfg.context_size + 1)}

\* C2: every window of context_size consecutive learned chains is contained,
\* at any time after it was learned.
C2_LearnedWindowsContained ==
    \A w \in LearnedWindows : NwsContainsValue(w)

\* C3: on a fresh NestedWordSet the first context_size - 1 updates return an
\* empty list, every later update returns exactly one word that is in
\* nested_words, and learn over n chains returns max(0, n - k + 1) words.
C3_ContextWarmUp ==
    (last.op = "update" /\ ~last.raised) =>
        /\ calls < cfg.context_size => last.ret = <<>>
        /\ calls >= cfg.context_size =>
            Len(last.ret) = 1 /\ last.ret[1] \in nws.nested_words
        /\ Len(last.learn) = Max({0, calls - cfg.context_size + 1})

C3_Witness ==
    /\ last.op = "update" /\ ~last.raised
    /\ cfg.context_size = 2 /\ calls = 3
    /\ Len(last.ret) = 1 /\ Len(last.learn) = 2

\* C23: after any sequence of NestedWordSet.update calls the context queue
\* holds the words of the most recent min(n, context_size) updated chains in
\* arrival order, and is never longer than context_size.
C23_ContextQueue ==
    cfg.model = "NestedWordSet" =>
        LET n == Len(last.words)
            m == Min({n, cfg.context_size})
        IN  /\ Len(nws.context_queue) <= cfg.context_size
            /\ nws.context_queue = SubSeq(last.words, n - m + 1, n)
            /\ (last.op = "update" /\ ~last.raised) =>
                /\ n = calls
                /\ nws.context_queue[m] = ChainToNw(cfg, tree, graph, last.chain)

\* Three updates on a set of context size 2: the first word has left the queue.
C23_Witness ==
    /\ cfg.model = "NestedWordSet" /\ cfg.context_size = 2 /\ calls = 3
    /\ Len(last.words) = 3
    /\ last.words[1] # last.words[2] /\ last.words[2] # last.words[3]
    /\ nws.context_queue = <<last.words[2], last.words[3]>>

\* C6: the word built for a chain of length L has exactly L symbols, the
\* first L - 1 pending calls and the last an internal.
C6_ChainWordShape ==
    (last.op = "update" /\ ~last.raised) =>
        LET L == Len(last.chain)
            M == Matching(last.nw)
        IN  /\ NWLen(last.nw) = L
            /\ GetPendingCalls(M) = 0..(L - 2)
            /\ IsInternal(M, L - 1)

\* ------------------------------------------- the _combine_nws state machine
\* The words _chain_to_nw builds over a layered graph with two vertices per
\* layer: the vertex at depth d is 2d or 2d + 1.
ChainWords ==
    {VerticesToNw(v) :
        v \in UNION {{f \in [1..n -> 0..(2 * n - 1)] :
                        \A d \in 1..n : f[d] \in {2 * (d - 1), 2 * (d - 1) + 1}} :
                     n \in Depths}}

InitCombine ==
    /\ cfg = [model |-> "Combine"]
    /\ nodes = <<>>
    /\ tree = EmptyTree
    /\ graph = EmptyLayered
    /\ nws = EmptyNws
    /\ calls = 0
    /\ matching = NewMatching(0)
    /\ nestedword = EmptyNW
    /\ segmenter = <<>>
    /\ dfa = <<>>
    /\ learned = <<>>
    /\ last = [op |-> "init", nw1 |-> EmptyNW, nw2 |-> EmptyNW, ret |-> EmptyNW,
               raised |-> FALSE]

\* One call _combine_nws(nw1, nw2) on the shared cache.
CombineCall(nw1, nw2) ==
    LET r == CombineNws(nws.combined_cache, nw1, nw2)
    IN  /\ calls < MaxCombines
        /\ calls' = calls + 1
        /\ nws' = [nws EXCEPT !.combined_cache = r.cache]
        /\ last' = [op |-> "combine", nw1 |-> nw1, nw2 |-> nw2,
                    ret |-> IF IsRaised(r.value) THEN EmptyNW ELSE r.value,
                    raised |-> IsRaised(r.value)]
        /\ UNCHANGED <<cfg, segmenter, dfa, nestedword, matching, nodes, tree, graph, learned>>

\* The first iteration of _combine_queue: the result so far is NestedWord().
CombineFirst == \E nw2 \in ChainWords : CombineCall(EmptyNW, nw2)

\* A later iteration of _combine_queue: the result so far is combined with
\* the next word of the queue.
CombineNext ==
    /\ last.op = "combine" /\ ~last.raised
    /\ \E nw2 \in ChainWords : CombineCall(last.ret, nw2)

NextCombine == CombineFirst \/ CombineNext

SpecCombine == InitCombine /\ [][NextCombine]_vars

\* The pending-call positions of a word in ascending order, and their symbols.
PendingPositions(nw) == Sorted(GetPendingCalls(Matching(nw)))
PendingSymbols(nw) == SymbolsAt(nw, PendingPositions(nw))
\* The index at which the pending-call symbols of the last call's operands
\* first differ, or None.
LastDifference == FirstDifference(PendingSymbols(last.nw1), PendingSymbols(last.nw2))

\* C4: when the pending-call symbols S1 of w1 and S2 of w2 first differ at
\* index d, the result is w1 with exactly len(S1) - d pending calls closed,
\* most recent first, each by a new return carrying the symbol of its call,
\* followed by the tail of w2 from P2[d]; the pending calls of w1 before
\* index d stay pending and the rest of w1 is unchanged.
C4_CloseAndSplice ==
    LET w1 == last.nw1
        w2 == last.nw2
        r == last.ret
        P1 == PendingPositions(w1)
        P2 == PendingPositions(w2)
        d == LastDifference
        n == NWLen(w1)
        closed == Len(P1) - d
        tail == NWLen(w2) - P2[d + 1]
    IN  (last.op = "combine" /\ n > 0 /\ d # None) =>
            /\ ~last.raised
            /\ NWLen(r) = n + closed + tail
            /\ SubSeq(r.word, 1, n) = w1.word
            /\ \A j \in d..(Len(P1) - 1) :
                LET call == P1[j + 1]
                    ret == n + (Len(P1) - 1 - j)
                IN  /\ r.word[ret + 1] = w1.word[call + 1]
                    /\ r.succ[call + 1] = ret
                    /\ r.pred[ret + 1] = call
                    /\ r.succ[ret + 1] = Unset
            /\ \A j \in 0..(d - 1) : r.succ[P1[j + 1] + 1] = None
            /\ \A i \in 0..(n - 1) :
                /\ r.pred[i + 1] = w1.pred[i + 1]
                /\ i \notin Range(P1) => r.succ[i + 1] = w1.succ[i + 1]
            /\ \A t \in 0..(tail - 1) :
                /\ r.word[n + closed + t + 1] = w2.word[P2[d + 1] + t + 1]
                /\ r.succ[n + closed + t + 1] = w2.succ[P2[d + 1] + t + 1]
                /\ r.pred[n + closed + t + 1] = Unset

\* Two calls are closed at once in a word that already holds a return.
C4_Witness ==
    /\ last.op = "combine" /\ ~last.raised
    /\ NWLen(last.nw1) > 0 /\ LastDifference = 0
    /\ Len(PendingPositions(last.nw1)) = 2
    /\ \E i \in 0..(NWLen(last.nw1) - 1) : IsReturn(Matching(last.nw1), i)
    /\ Len(PendingPositions(last.ret)) = Len(PendingPositions(last.nw2))

\* C5: combine(w1, w2) is w2 when w1 is empty; when the pending-call symbols
\* agree on the common prefix the result is w1, with w2's last symbol appended
\* as one internal exactly when it differs from w1's last symbol; combining a
\* word with itself returns it unchanged.
C5_CombineNoClose ==
    LET w1 == last.nw1
        w2 == last.nw2
        sym == w2.word[NWLen(w2)]
    IN  last.op = "combine" =>
            /\ NWLen(w1) = 0 => last.ret = w2
            /\ (NWLen(w1) > 0 /\ LastDifference = None) =>
                /\ ~last.raised
                /\ last.ret = IF w1.word[NWLen(w1)] # sym
                              THEN [word |-> Append(w1.word, sym),
                                    succ |-> Append(w1.succ, Unset),
                                    pred |-> Append(w1.pred, Unset)]
                              ELSE w1
            /\ w1 = w2 => last.ret = w1

\* A word with pending calls is extended by one internal, no call closed.
C5_Witness ==
    /\ last.op = "combine" /\ ~last.raised
    /\ NWLen(last.nw1) > 0 /\ LastDifference = None
    /\ PendingPositions(last.nw1) # <<>> /\ PendingPositions(last.nw2) # <<>>
    /\ NWLen(last.ret) = NWLen(last.nw1) + 1

\* ---------------------------------------------------------------------------
\* Malformed chains: update(bad) and learn([good, bad]) on the four models.
\* ---------------------------------------------------------------------------

\* The malformed arguments: None (not a list), [] and [5] (a list holding a
\* value that is not a Node).
BadChains == {"NotAList", "Empty", "NonNode"}

\* The integer 5 where a Node is expected.
NonNode == [depth |-> None, val |-> 5]

NoError == "none"
InvalidInput == "ValueError"

\* The state of the model under test.
ModelState == [nodes |-> nodes, tree |-> tree, graph |-> graph, nws |-> nws]

\* PatternSet.update(bad): no validation.  len(None) raises TypeError; an
\* empty list runs neither loop; [5] grows self.nodes to one depth and adds 5
\* to nodes[0] when it is not there.
SetUpdateBad(ns, bad) ==
    CASE bad = "NotAList" -> [nodes |-> ns, error |-> "TypeError"]
      [] bad = "Empty" -> [nodes |-> ns, error |-> NoError]
      [] bad = "NonNode" ->
            LET grown == IF Len(ns) < 1 THEN <<{}>> ELSE ns
            IN  [nodes |-> [grown EXCEPT ![1] = @ \cup {NonNode}], error |-> NoError]

\* The checks that open PatternTree.update and PatternGraph.update: the chain
\* is a list, and every element is a Node.  An empty list passes both.
ValidateChain(bad) ==
    CASE bad = "NotAList" -> InvalidInput
      [] bad = "Empty" -> NoError
      [] bad = "NonNode" -> InvalidInput

\* NestedWordSet.update(bad): len(None) raises TypeError, an empty chain is
\* rejected, and [5] is rejected by self.patterns.update.
NwsUpdateBad(bad) ==
    CASE bad = "NotAList" -> "TypeError"
      [] bad = "Empty" -> InvalidInput
      [] bad = "NonNode" -> ValidateChain(bad)

\* The exception update(bad) ends with, or NoError when it returns.
UpdateError(c, ns, bad) ==
    CASE c.model = "PatternSet" -> SetUpdateBad(ns, bad).error
      [] c.model \in {"PatternTree", "PatternGraph"} -> ValidateChain(bad)
      [] c.model = "NestedWordSet" -> NwsUpdateBad(bad)

\* The checks that open PatternSet.learn, PatternTree.learn and
\* PatternGraph.learn over [good, bad]: every chain is a list of Nodes.
ValidateChains(bad) == ValidateChain(bad)

\* The nested word sets malformed chains are tried on.
NwsErrConfigs == {c \in NwsConfigs : c.kind = "Sum" /\ c.closest}

\* A call counts against the bound of the model it is made on.
MaxCalls(c) == IF c.model = "NestedWordSet" THEN MaxNwsUpdates ELSE MaxUpdates

\* update(bad) on the model under test.  PatternTree, PatternGraph and
\* NestedWordSet raise, or return, before they touch their state.
UpdateMalformed ==
    /\ calls < MaxCalls(cfg)
    /\ \E bad \in BadChains :
        /\ nodes' = IF cfg.model = "PatternSet" THEN SetUpdateBad(nodes, bad).nodes ELSE nodes
        /\ last' = Merge(last, [op |-> "update_malformed", bad |-> bad, raised |-> FALSE,
                                error |-> UpdateError(cfg, nodes, bad), pre |-> ModelState])
    /\ calls' = calls + 1
    /\ UNCHANGED <<cfg, segmenter, dfa, nestedword, matching, tree, graph, nws, learned>>

\* The good chains learn() is given ahead of the malformed one.
LearnChains == {<<0>>, <<3, 3>>}

\* learn([good, bad]) on PatternSet, PatternTree or PatternGraph: all chains
\* are validated first, then each is passed to update.  update([]) changes
\* nothing.
LearnMalformedPattern ==
    /\ cfg.model # "NestedWordSet"
    /\ calls < MaxCalls(cfg)
    /\ \E good \in LearnChains, bad \in BadChains :
        \E applied \in {ValidateChains(bad) = NoError} :
        \E s \in {IF applied /\ cfg.model = "PatternSet"
                  THEN SetUpdate(cfg.kind, nodes, good)[1] ELSE nodes} :
        \E t \in {IF applied /\ cfg.model = "PatternTree"
                  THEN TreeUpdate(cfg, tree, good)[1] ELSE tree} :
        \E g \in {IF applied /\ cfg.model = "PatternGraph"
                  THEN GraphUpdate(cfg, graph, good)
                  ELSE [graph |-> graph, raised |-> FALSE]} :
            /\ nodes' = s
            /\ tree' = t
            /\ graph' = g.graph
            /\ learned' = IF applied THEN Append(learned, good) ELSE learned
            /\ last' = Merge(last, [op |-> "learn", chain |-> good, bad |-> bad,
                                    raised |-> g.raised, error |-> ValidateChains(bad),
                                    pre |-> ModelState])
    /\ calls' = calls + 1
    /\ UNCHANGED <<cfg, segmenter, dfa, nestedword, matching, nws>>

\* No further chain after the good one.
NoChain == "NoChain"

\* NestedWordSet.learn([good]) and NestedWordSet.learn([good, bad]): no
\* validation; update(good) runs to its end, then update(bad) raises.
LearnNws ==
    /\ cfg.model = "NestedWordSet"
    /\ calls < MaxCalls(cfg)
    /\ \E good \in LearnChains, rest \in {NoChain} \cup BadChains :
        NwsCall(good, [op |-> "learn", bad |-> rest,
                       error |-> IF rest = NoChain THEN NoError ELSE NwsUpdateBad(rest),
                       pre |-> ModelState])
    /\ calls' = calls + 1
    /\ UNCHANGED <<cfg, segmenter, dfa, nestedword, matching, nodes>>

\* Malformed chains on PatternSet, PatternTree and PatternGraph.
NextErr ==
    \/ PatternSetUpdate
    \/ PatternTreeUpdate
    \/ PatternGraphUpdate
    \/ UpdateMalformed
    \/ LearnMalformedPattern

SpecErr == Init /\ [][NextErr]_vars

\* Malformed chains on NestedWordSet.
InitNwsErr ==
    /\ InitNws
    /\ cfg \in NwsErrConfigs

NextNwsErr ==
    \/ LearnNws
    \/ UpdateMalformed

SpecNwsErr == InitNwsErr /\ [][NextNwsErr]_vars

\* C13: on every model, update with a malformed chain (not a list, an empty
\* list, a list holding a non-Node) fails with InvalidInput and leaves the
\* model's state exactly as it was before the call.
C13_MalformedUpdateRejected ==
    last.op = "update_malformed" =>
        /\ last.error = InvalidInput
        /\ ModelState = last.pre

\* C14: when learn(chains) over a list holding a malformed chain fails with
\* InvalidInput, none of the chains of the call has been applied: patterns,
\* nested words and context queue are as before the call.
C14_LearnAllOrNothing ==
    (last.op = "learn" /\ ~last.raised /\ last.error = InvalidInput) =>
        ModelState = last.pre

\* ---------------------------------------------------------------------------
\* The MatchingRelation state machine: set_match, remove_match, extend and
\* slicing on one relation.
\* ---------------------------------------------------------------------------

\* The longest relation.
MaxLen == 3

\* remove_match(i) raises: i is an internal position.
RemoveMatchRaises(M, i) == IsInternal(M, i)

\* remove_match(i) on a position that is not internal: both sides of the
\* match get_match(i) returns are reset.
RemoveMatch(M, i) ==
    LET m == GetMatch(M, i)
        s == IF m[1] # None THEN [M.succ EXCEPT ![m[1] + 1] = Unset] ELSE M.succ
        p == IF m[2] # None THEN [M.pred EXCEPT ![m[2] + 1] = Unset] ELSE M.pred
    IN  [M EXCEPT !.succ = s, !.pred = p]

\* A position below 0, where None cannot be meant.
Negative == -3

\* The arguments set_match is called with: None, the positions of the longest
\* relation (out of bounds on a shorter one), and a position below 0.
MatchArgs == {None, Negative} \cup 0..(MaxLen - 1)

InitMatch ==
    /\ cfg = [model |-> "MatchingRelation"]
    /\ nodes = <<>>
    /\ tree = EmptyTree
    /\ graph = EmptyLayered
    /\ nws = EmptyNws
    /\ matching \in {NewMatching(n) : n \in 0..MaxLen}
    /\ nestedword = EmptyNW
    /\ segmenter = <<>>
    /\ dfa = <<>>
    /\ calls = 0
    /\ learned = <<>>
    /\ last = [op |-> "init", args |-> <<>>, raised |-> FALSE, pre |-> NewMatching(0),
               ret |-> NewMatching(0)]

\* set_match(call, ret)
MatchSetMatch ==
    /\ cfg.model = "MatchingRelation"
    /\ \E call \in MatchArgs, ret \in MatchArgs :
        \E raises \in {ValidatePropertiesRaises(matching, call, ret)} :
            /\ matching' = IF raises THEN matching ELSE SetMatch(matching, call, ret)
            /\ last' = [op |-> "set_match", args |-> <<call, ret>>, raised |-> raises,
                        pre |-> matching, ret |-> NewMatching(0)]
    /\ UNCHANGED <<cfg, segmenter, dfa, nestedword, nodes, tree, graph, nws, calls, learned>>

\* remove_match(i)
MatchRemoveMatch ==
    /\ cfg.model = "MatchingRelation"
    /\ \E i \in 0..(MLen(matching) - 1) :
        \E raises \in {RemoveMatchRaises(matching, i)} :
            /\ matching' = IF raises THEN matching ELSE RemoveMatch(matching, i)
            /\ last' = [op |-> "remove_match", args |-> <<i>>, raised |-> raises,
                        pre |-> matching, ret |-> NewMatching(0)]
    /\ UNCHANGED <<cfg, segmenter, dfa, nestedword, nodes, tree, graph, nws, calls, learned>>

\* extend(length)
MatchExtend ==
    /\ cfg.model = "MatchingRelation"
    /\ \E length \in 1..(MaxLen - MLen(matching)) :
        /\ matching' = MExtend(matching, length)
        /\ last' = [op |-> "extend", args |-> <<length>>, raised |-> FALSE,
                    pre |-> matching, ret |-> NewMatching(0)]
    /\ UNCHANGED <<cfg, segmenter, dfa, nestedword, nodes, tree, graph, nws, calls, learned>>

\* matching[a:b]: the relation itself is left alone, last.ret is the slice.
MatchSlice ==
    /\ cfg.model = "MatchingRelation"
    /\ \E a \in 0..MaxLen : \E b \in a..MaxLen :
        \E sub \in {MSlice(matching, a, b)} :
            /\ last' = [op |-> "slice", args |-> <<a, b>>, raised |-> IsRaised(sub),
                        pre |-> matching,
                        ret |-> IF IsRaised(sub) THEN NewMatching(0) ELSE sub]
    /\ UNCHANGED <<cfg, segmenter, dfa, nestedword, nodes, tree, graph, nws, matching, calls, learned>>

NextMatch ==
    \/ MatchSetMatch
    \/ MatchRemoveMatch
    \/ MatchExtend
    \/ MatchSlice

SpecMatch == InitMatch /\ [][NextMatch]_vars

\* A relation that only set_match is called on.
SpecSetMatch == InitMatch /\ [][MatchSetMatch]_vars

\* The positions of the relation under test.
Positions == 0..(MLen(matching) - 1)

\* The matches the two arrays hold: (i, succ[i]) for every call i and
\* (pred[j], j) for every return j.
StoredMatches(M) ==
    {<<i, M.succ[i + 1]>> : i \in {p \in 0..(MLen(M) - 1) : IsCall(M, p)}}
    \cup {<<M.pred[j + 1], j>> : j \in {p \in 0..(MLen(M) - 1) : IsReturn(M, p)}}

\* C15: after any sequence of set_match calls, accepted or rejected, no two
\* matches of the relation cross under the crossing rule, pending sides
\* included.
C15_NoCrossing ==
    cfg.model = "MatchingRelation" =>
        \A m1 \in StoredMatches(matching), m2 \in StoredMatches(matching) :
            m1 # m2 => ~Crosses(m1[1], m1[2], m2[1], m2[2])

\* C16: after any sequence of set_match calls, every call i has succ[i]
\* pending or at a position j > i, and succ[i] = j implies pred[j] = i.
C16_CallSuccessor ==
    cfg.model = "MatchingRelation" =>
        \A i \in Positions :
            IsCall(matching, i) =>
                \/ matching.succ[i + 1] = None
                \/ /\ matching.succ[i + 1] > i
                   /\ matching.pred[matching.succ[i + 1] + 1] = i

\* C17: after any sequence of set_match, remove_match and extend, no position
\* is both a call and a return: each is exactly one of internal, call, return.
C17_OneKindPerPosition ==
    cfg.model = "MatchingRelation" =>
        \A i \in Positions :
            Cardinality({k \in {"internal", "call", "return"} :
                            \/ k = "internal" /\ IsInternal(matching, i)
                            \/ k = "call" /\ IsCall(matching, i)
                            \/ k = "return" /\ IsReturn(matching, i)}) = 1

\* C18: set_match(c, r) is rejected, with the relation unchanged, when both
\* arguments are none, when both are positions with c >= r, when a position is
\* out of bounds, or when the new match would cross an existing one; in every
\* other case the match is recorded.
C18_SetMatchRejects ==
    (cfg.model = "MatchingRelation" /\ last.op = "set_match") =>
        LET c == last.args[1]
            r == last.args[2]
            pre == last.pre
            out(x) == x # None /\ (x < 0 \/ x >= MLen(pre))
            reject == \/ c = None /\ r = None
                      \/ c # None /\ r # None /\ c >= r
                      \/ out(c) \/ out(r)
                      \/ \E m \in StoredMatches(pre) : Crosses(c, r, m[1], m[2])
        IN  /\ last.raised <=> reject
            /\ last.raised => matching = pre
            /\ ~last.raised =>
                /\ MLen(matching) = MLen(pre)
                /\ \A i \in Positions :
                    /\ matching.succ[i + 1] = IF i = c THEN r ELSE pre.succ[i + 1]
                    /\ matching.pred[i + 1] = IF i = r THEN c ELSE pre.pred[i + 1]

\* C19: remove_match(i) fails when i is internal; otherwise it removes the
\* match of i, both positions of that match become internal, and every other
\* position is left as it was.
C19_RemoveMatch ==
    (cfg.model = "MatchingRelation" /\ last.op = "remove_match") =>
        LET i == last.args[1]
            pre == last.pre
            m == GetMatch(pre, i)
            ends == {m[1], m[2]} \ {None}
        IN  /\ last.raised <=> IsInternal(pre, i)
            /\ last.raised => matching = pre
            /\ ~last.raised =>
                /\ MLen(matching) = MLen(pre)
                /\ \A p \in ends : IsInternal(matching, p)
                /\ \A p \in Positions \ ends :
                    /\ matching.succ[p + 1] = pre.succ[p + 1]
                    /\ matching.pred[p + 1] = pre.pred[p + 1]

\* C20: the slice [a, b) of a relation has length b - a; a match with both
\* sides inside is kept, shifted by a; a match with exactly one side inside
\* becomes pending on the side that is outside; an internal position stays
\* internal.
C20_Slice ==
    (cfg.model = "MatchingRelation" /\ last.op = "slice"
     /\ last.args[2] <= MLen(last.pre)) =>
        LET a == last.args[1]
            b == last.args[2]
            pre == last.pre
            sub == last.ret
            inside(x) == x # None /\ a <= x /\ x < b
        IN  /\ ~last.raised
            /\ MLen(sub) = b - a
            /\ \A p \in a..(b - 1) :
                /\ IsInternal(pre, p) => IsInternal(sub, p - a)
                /\ \A m \in StoredMatches(pre) :
                    /\ (m[1] = p /\ inside(m[2])) =>
                            sub.succ[p - a + 1] = m[2] - a /\ sub.pred[m[2] - a + 1] = p - a
                    /\ (m[1] = p /\ ~inside(m[2])) => sub.succ[p - a + 1] = None
                    /\ (m[2] = p /\ ~inside(m[1])) => sub.pred[p - a + 1] = None

\* ---------------------------------------------------------------------------
\* The NestedWord state machine: one word is constructed, then changed by
\* add_internals, add_calls, add_returns, concatenation and slicing.
\* ---------------------------------------------------------------------------

\* The longest word.
MaxWordLen == 4

\* The symbols of the words: two plain symbols and the string "<".
Symbols == {0, 1, TagSymbol}

\* MatchingRelation.__init__(length, matching): set_match for each pair.
RECURSIVE SetMatches(_, _, _)
SetMatches(M, pairs, i) ==
    IF i > Len(pairs) \/ IsRaised(M) THEN M
    ELSE SetMatches(TrySetMatch(M, pairs[i][1], pairs[i][2]), pairs, i + 1)

\* NestedWord.__getitem__(slice(start, stop))
NWSlice(nw, start, stop) ==
    LET M == MSlice(Matching(nw), start, stop)
    IN  IF IsRaised(M) THEN Raised ELSE NW(SubSeq(nw.word, start + 1, stop), M)

RECURSIVE MarkCallsInPlace(_, _, _)
\* The loop of add_calls on the relation itself: a set_match that raises
\* leaves what the earlier iterations did.
MarkCallsInPlace(M, length, pos) ==
    IF pos > length THEN [matching |-> M, raised |-> FALSE]
    ELSE IF ValidatePropertiesRaises(M, MLen(M) - pos, None)
    THEN [matching |-> M, raised |-> TRUE]
    ELSE MarkCallsInPlace(SetMatch(M, MLen(M) - pos, None), length, pos + 1)

RECURSIVE MatchReturnsInPlace(_, _, _, _)
\* The loop of add_returns on the relation itself.
MatchReturnsInPlace(M, pending, count, i) ==
    IF i >= count THEN [matching |-> M, raised |-> FALSE]
    ELSE LET call == IF i < Len(pending) THEN pending[i + 1] ELSE None
             ret == MLen(M) - count + i
         IN  IF ValidatePropertiesRaises(M, call, ret)
             THEN [matching |-> M, raised |-> TRUE]
             ELSE MatchReturnsInPlace(SetMatch(M, call, ret), pending, count, i + 1)

\* The sequences of at most n elements of S.
SeqsUpTo(S, n) == UNION {[1..k -> S] : k \in 0..n}

\* The tagged sequences from_tagged_sequence is called with.
Tokens == {CallTag, ReturnTag, Sym(0), Sym(1)}
MaxTagged == 5
TaggedSequences == SeqsUpTo(Tokens, MaxTagged)

\* The words and the match lists NestedWord(word, MatchingRelation(n, pairs))
\* is called with.
MaxPairs == 2
ConstructWords == SeqsUpTo(Symbols, 2)
ConstructPairs == SeqsUpTo(({None} \cup 0..1) \X ({None} \cup 0..1), MaxPairs)

InitWord ==
    /\ cfg = [model |-> "NestedWord"]
    /\ nodes = <<>>
    /\ tree = EmptyTree
    /\ graph = EmptyLayered
    /\ nws = EmptyNws
    /\ matching = NewMatching(0)
    /\ nestedword = EmptyNW
    /\ segmenter = <<>>
    /\ dfa = <<>>
    /\ calls = 0
    /\ learned = <<>>
    /\ last = [op |-> "init", args |-> <<>>, raised |-> FALSE, pre |-> EmptyNW]

\* The result of a call that either raises, leaving the word as it was, or
\* yields the word r.
WordResult(op, args, r) ==
    /\ nestedword' = IF IsRaised(r) THEN nestedword ELSE r
    /\ last' = [op |-> op, args |-> args, raised |-> IsRaised(r), pre |-> nestedword]
    /\ UNCHANGED <<cfg, segmenter, dfa, nodes, tree, graph, nws, matching, calls, learned>>

\* NestedWord.from_tagged_sequence(tagged)
WordFromTagged ==
    /\ cfg.model = "NestedWord" /\ last.op = "init"
    /\ \E tagged \in TaggedSequences :
        \E r \in {FromTaggedSequence(tagged)} :
            /\ NWLen(IF IsRaised(r) THEN EmptyNW ELSE r) <= MaxWordLen
            /\ WordResult("from_tagged_sequence", <<tagged>>, r)

\* NestedWord(word, MatchingRelation(len(word), pairs))
WordConstruct ==
    /\ cfg.model = "NestedWord" /\ last.op = "init"
    /\ \E word \in ConstructWords, pairs \in ConstructPairs :
        \E M \in {SetMatches(NewMatching(Len(word)), pairs, 1)} :
            WordResult("construct", <<word, pairs>>, IF IsRaised(M) THEN Raised ELSE NW(word, M))

\* add_internals(symbols)
WordAddInternals ==
    /\ cfg.model = "NestedWord"
    /\ \E symbols \in [1..1 -> Symbols] :
        /\ NWLen(nestedword) + Len(symbols) <= MaxWordLen
        /\ WordResult("add_internals", <<symbols>>, AddInternals(nestedword, symbols))

\* add_calls(symbols): the word is extended first, then the calls are marked.
WordAddCalls ==
    /\ cfg.model = "NestedWord"
    /\ \E symbols \in [1..1 -> Symbols] \cup [1..2 -> {0}] :
        /\ NWLen(nestedword) + Len(symbols) <= MaxWordLen
        /\ \E ext \in {AddInternals(nestedword, symbols)} :
           \E r \in {MarkCallsInPlace(Matching(ext), Len(symbols), 1)} :
            /\ nestedword' = NW(ext.word, r.matching)
            /\ last' = [op |-> "add_calls", args |-> <<symbols>>, raised |-> r.raised,
                        pre |-> nestedword]
    /\ UNCHANGED <<cfg, segmenter, dfa, nodes, tree, graph, nws, matching, calls, learned>>

\* add_returns(symbols): the word is extended first, then the new positions
\* are matched to the pending calls, most recent first.
WordAddReturns ==
    /\ cfg.model = "NestedWord"
    /\ \E symbols \in [1..1 -> Symbols] \cup [1..2 -> {0}] :
        /\ NWLen(nestedword) + Len(symbols) <= MaxWordLen
        /\ \E ext \in {AddInternals(nestedword, symbols)} :
           \E pending \in {Reversed(Sorted(GetPendingCalls(Matching(ext))))} :
           \E r \in {MatchReturnsInPlace(Matching(ext), pending, Len(symbols), 0)} :
            /\ nestedword' = NW(ext.word, r.matching)
            /\ last' = [op |-> "add_returns", args |-> <<symbols>>, raised |-> r.raised,
                        pre |-> nestedword]
    /\ UNCHANGED <<cfg, segmenter, dfa, nodes, tree, graph, nws, matching, calls, learned>>

\* The words a word is concatenated with.
OtherWords == {NW(<<0>>, NewMatching(1)),
               NW(<<0>>, SetMatch(NewMatching(1), 0, None)),
               NW(<<1>>, SetMatch(NewMatching(1), None, 0))}

\* nestedword + other
WordConcat ==
    /\ cfg.model = "NestedWord"
    /\ \E other \in OtherWords :
        /\ NWLen(nestedword) + NWLen(other) <= MaxWordLen
        /\ WordResult("concat", <<other>>, NWAdd(nestedword, other))

\* nestedword[a:b]
WordSlice ==
    /\ cfg.model = "NestedWord"
    /\ \E a \in 0..NWLen(nestedword) : \E b \in a..NWLen(nestedword) :
        WordResult("slice", <<a, b>>, NWSlice(nestedword, a, b))

NextWord ==
    \/ WordFromTagged
    \/ WordConstruct
    \/ WordAddInternals
    \/ WordAddCalls
    \/ WordAddReturns
    \/ WordConcat
    \/ WordSlice

SpecWord == InitWord /\ [][NextWord]_vars

\* C21: for every NestedWord that can be constructed (from a word and a
\* matching, from a tagged sequence, through add_internals, add_calls,
\* add_returns, concatenation and slicing),
\* from_tagged_sequence(nw.to_tagged()) succeeds and equals nw.
C21_TaggedRoundTrip ==
    cfg.model = "NestedWord" => FromTaggedSequence(ToTagged(nestedword)) = nestedword

\* The positions whose successor is pending, most recent first.
PendingCallsDescending(nw) ==
    Reversed(Sorted({i \in 0..(NWLen(nw) - 1) : nw.succ[i + 1] = None}))

\* C22: add_returns(S) appends |S| new positions and matches them, in order,
\* to the pending calls taken from the most recent to the oldest; when there
\* are fewer pending calls than new returns the remaining new positions are
\* pending returns; every match that existed before the call is unchanged.
C22_AddReturns ==
    (cfg.model = "NestedWord" /\ last.op = "add_returns") =>
        LET pre == last.pre
            S == last.args[1]
            L == NWLen(pre)
            P == PendingCallsDescending(pre)
            k == Min({Len(S), Len(P)})
            closed == {P[i] : i \in 1..k}
        IN  /\ ~last.raised
            /\ nestedword.word = pre.word \o S
            /\ Len(nestedword.succ) = L + Len(S) /\ Len(nestedword.pred) = L + Len(S)
            /\ \A i \in 0..(Len(S) - 1) :
                /\ nestedword.succ[L + i + 1] = Unset
                /\ IF i < Len(P)
                   THEN /\ nestedword.pred[L + i + 1] = P[i + 1]
                        /\ nestedword.succ[P[i + 1] + 1] = L + i
                   ELSE nestedword.pred[L + i + 1] = None
            /\ \A p \in 0..(L - 1) :
                /\ nestedword.pred[p + 1] = pre.pred[p + 1]
                /\ p \notin closed => nestedword.succ[p + 1] = pre.succ[p + 1]

\* ------------------------------------------- NestedWordSet.contains(chains)
\* The chains the query machine updates and queries with.
QueryChains == {<<0>>, <<3>>, <<0, 3>>}

QueryConfigs == {c \in NwsErrConfigs : c.context_size <= 2}

\* n copies of x.
Repeat(x, n) == [i \in 1..n |-> x]

\* The arguments contains is called with: None, or a list of chains; the
\* lists are the well-formed ones (context_size non-empty chains), one chain
\* too many, one chain too few, and context_size chains the last of which is
\* empty.
ContainsArgs(k) ==
    {[list |-> FALSE, chains |-> <<>>]}
    \cup {[list |-> TRUE, chains |-> cs] : cs \in [1..k -> QueryChains]}
    \cup {[list |-> TRUE, chains |-> Repeat(<<0>>, n)] : n \in {k - 1, k + 1}}
    \cup {[list |-> TRUE, chains |-> Append(Repeat(<<0>>, k - 1), <<>>)]}

\* A well-formed argument of contains.
WellFormedArg(k, arg) ==
    /\ arg.list
    /\ Len(arg.chains) = k
    /\ \A i \in 1..k : Len(arg.chains[i]) > 0

\* The outcome of contains(chains) before the fold: iterating None raises
\* TypeError; a wrong number of chains raises ValueError; on a PatternGraph an
\* empty chain has no vertices and vertices[-1] raises IndexError, on a
\* PatternTree it is the word of the root alone.
ContainsError(c, T, G, arg) ==
    IF ~arg.list THEN "TypeError"
    ELSE IF Len(arg.chains) # c.context_size THEN InvalidInput
    ELSE IF \E i \in 1..Len(arg.chains) : Len(PatternVertices(c, T, G, arg.chains[i])) = 0
    THEN "IndexError"
    ELSE NoError

\* The words of the chains of a list that passed the checks.
ContainsWords(c, T, G, arg) ==
    IF ContainsError(c, T, G, arg) # NoError THEN <<>>
    ELSE [i \in 1..Len(arg.chains) |-> ChainToNw(c, T, G, arg.chains[i])]

\* update(chain) with a chain of the query machine.
QueryUpdate ==
    /\ cfg.model = "NestedWordSet"
    /\ calls < MaxNwsUpdates
    /\ \E chain \in QueryChains : NwsCall(chain, [op |-> "update"])
    /\ calls' = calls + 1
    /\ UNCHANGED <<cfg, segmenter, dfa, nestedword, matching, nodes>>

\* NestedWordSet.contains(chains).  The fold stores every combination it
\* computes in the cache; nothing else is written.
QueryContains ==
    /\ cfg.model = "NestedWordSet"
    /\ calls < MaxNwsUpdates
    /\ \E arg \in ContainsArgs(cfg.context_size) :
       \E error \in {ContainsError(cfg, tree, graph, arg)} :
       \E words \in {ContainsWords(cfg, tree, graph, arg)} :
       \E folded \in {CombineFold(nws.combined_cache, EmptyNW, words, 1)} :
        /\ nws' = [nws EXCEPT !.combined_cache = folded.cache]
        /\ last' = [op |-> "contains", args |-> arg,
                    error |-> IF error # NoError THEN error
                              ELSE IF IsRaised(folded.value) THEN InvalidInput
                              ELSE NoError,
                    value |-> error = NoError /\ folded.value \in nws.nested_words,
                    pre |-> ModelState, learn |-> last.learn, words |-> last.words]
    /\ calls' = calls + 1
    /\ UNCHANGED <<cfg, segmenter, dfa, nestedword, matching, nodes, tree, graph, learned>>

InitQuery ==
    /\ InitNws
    /\ cfg \in QueryConfigs

NextQuery == QueryUpdate \/ QueryContains

SpecQuery == InitQuery /\ [][NextQuery]_vars

\* C24: contains(chains) fails with InvalidInput unless chains is a list of
\* exactly context_size non-empty chains; on a well-formed argument it returns
\* a boolean without raising.
C24_ContainsValidates ==
    last.op = "contains" =>
        IF WellFormedArg(cfg.context_size, last.args)
        THEN last.error = NoError /\ last.value \in BOOLEAN
        ELSE last.error = InvalidInput

\* The end of NestedWordSet.update, once the patterns are updated (p), the
\* word is enqueued (queue) and the queue is combined (folded).
UpdateResult(c, p, N, queue, folded) ==
    IF p.raised
    THEN [tree |-> p.tree, graph |-> p.graph, nws |-> N, ret |-> <<>>, raised |-> TRUE]
    ELSE IF Len(queue) # c.context_size
    THEN [tree |-> p.tree, graph |-> p.graph,
          nws |-> [N EXCEPT !.context_queue = queue], ret |-> <<>>, raised |-> FALSE]
    ELSE IF IsRaised(folded.value)
    THEN [tree |-> p.tree, graph |-> p.graph,
          nws |-> [N EXCEPT !.context_queue = queue, !.combined_cache = folded.cache],
          ret |-> <<>>, raised |-> TRUE]
    ELSE [tree |-> p.tree, graph |-> p.graph,
          nws |-> [nested_words |-> N.nested_words \cup {folded.value},
                   context_queue |-> queue,
                   combined_cache |-> folded.cache],
          ret |-> <<folded.value>>, raised |-> FALSE]

\* The middle of NestedWordSet.update: the word of the chain on the updated
\* patterns is enqueued and the queue combined.
UpdateQueue(c, p, N, chain) ==
    CHOOSE out \in {UpdateResult(c, p, N, queue, CombineQueue(N.combined_cache, queue)) :
                        queue \in {Enqueue(N.context_queue, c.context_size,
                                           ChainToNw(c, p.tree, p.graph, chain))}} : TRUE

\* What update(chain) returns and leaves behind when it is called on the
\* patterns T, G and the set N: the body of NwsCall as a value.
UpdateState(c, T, G, N, chain) ==
    CHOOSE out \in {UpdateQueue(c, p, N, chain) : p \in {PatternsUpdate(c, T, G, chain)}} : TRUE

\* The same, the cache left out.
UpdateOutcome(c, T, G, N, chain) ==
    LET r == UpdateState(c, T, G, N, chain)
    IN  [tree |-> r.tree, graph |-> r.graph, nested_words |-> r.nws.nested_words,
         context_queue |-> r.nws.context_queue, ret |-> r.ret, raised |-> r.raised]

\* What contains(arg) raises or returns when it is called on T, G and N.
ContainsOutcome(c, T, G, N, arg) ==
    LET error == ContainsError(c, T, G, arg)
        folded == CombineFold(N.combined_cache, EmptyNW, ContainsWords(c, T, G, arg), 1)
    IN  [error |-> IF error # NoError THEN error
                   ELSE IF IsRaised(folded.value) THEN InvalidInput
                   ELSE NoError,
         value |-> error = NoError /\ folded.value \in N.nested_words]

\* C25: contains is a lookup: it leaves the pattern model (vertices, edges,
\* layers), the nested words and the context queue as they were, and the
\* update or contains call that comes next returns and leaves behind the same
\* as it would have without the contains call.
C25_ContainsIsLookup ==
    (cfg.model = "NestedWordSet" /\ last.op = "contains") =>
        LET pre == last.pre
        IN  /\ tree = pre.tree
            /\ graph = pre.graph
            /\ nodes = pre.nodes
            /\ nws.nested_words = pre.nws.nested_words
            /\ nws.context_queue = pre.nws.context_queue
            /\ \A chain \in QueryChains :
                UpdateOutcome(cfg, tree, graph, nws, chain)
                    = UpdateOutcome(cfg, pre.tree, pre.graph, pre.nws, chain)
            /\ \A arg \in ContainsArgs(cfg.context_size) :
                ContainsOutcome(cfg, tree, graph, nws, arg)
                    = ContainsOutcome(cfg, pre.tree, pre.graph, pre.nws, arg)

\* A query for two chains that were not learned in this order: it answers
\* false and stores their combination in the cache, next to the learned one.
C25_Witness ==
    /\ cfg.model = "NestedWordSet" /\ last.op = "contains"
    /\ cfg.context_size = 2
    /\ last.error = NoError /\ ~last.value
    /\ last.pre.nws.nested_words # {}
    /\ last.pre.nws.combined_cache # {}
    /\ nws.combined_cache # last.pre.nws.combined_cache

\* The words the set combines in the current state: the words of the chains
\* on the current patterns, the words in the queue and the stored
\* combinations.
CombinedWords ==
    {EmptyNW}
    \cup {ChainToNw(cfg, tree, graph, chain) : chain \in QueryChains}
    \cup {nws.context_queue[i] : i \in 1..Len(nws.context_queue)}
    \cup nws.nested_words

\* C26: the memoised combine returns, for every pair (w1, w2) and whatever
\* update and contains calls came before, the word the uncached computation
\* returns; every cache entry holds the combination of its key; a pair that
\* was combined has exactly one entry, and combining an equal pair again uses
\* it, adding nothing.
C26_MemoisedCombine ==
    cfg.model = "NestedWordSet" =>
        /\ \A e \in nws.combined_cache : e.value = Combine(e.key1, e.key2)
        /\ \A w1 \in CombinedWords : \A w2 \in CombinedWords \ {EmptyNW} :
            LET r == CombineNws(nws.combined_cache, w1, w2)
            IN  /\ r.value = Combine(w1, w2)
                /\ (NWLen(w1) > 0 /\ ~IsRaised(r.value)) =>
                    /\ Cardinality(CacheHit(r.cache, w1, w2)) = 1
                    /\ CombineNws(r.cache, w1, w2) = r

\* A query for the two chains learned last: the combination is answered from
\* the entry update stored, a word different from both of its operands, and
\* the cache does not grow.
C26_Witness ==
    /\ cfg.model = "NestedWordSet" /\ cfg.context_size = 2
    /\ last.op = "contains" /\ last.error = NoError /\ last.value
    /\ nws.combined_cache = last.pre.nws.combined_cache
    /\ \E e \in nws.combined_cache :
        /\ e.key1 = ChainToNw(cfg, tree, graph, last.args.chains[1])
        /\ e.key2 = ChainToNw(cfg, tree, graph, last.args.chains[2])
        /\ e.value \notin {e.key1, e.key2}
        /\ e.value \in nws.nested_words

\* ---------------------------------------------------------------------------
\* SlidingWindow: segment(data), with differencing and the window size derived
\* from the autocorrelation of the first series.
\* ---------------------------------------------------------------------------
MaxData == 6
MaxSegments == 3

\* _ac_window_size(data, minimum=10)
MinimumLag == 10

RECURSIVE SumSeq(_, _)
\* s[1] + ... + s[n]
SumSeq(s, n) == IF n = 0 THEN 0 ELSE s[n] + SumSeq(s, n - 1)

\* np.diff(data)
Diff(data) == [i \in 1..(Len(data) - 1) |-> data[i + 1] - data[i]]

\* size * (data - np.mean(data)): the centred series, scaled to stay integral.
Centred(data) == [i \in 1..Len(data) |-> Len(data) * data[i] - SumSeq(data, Len(data))]

\* The correlation of the centred series with itself at lag k:
\* np.correlate(norm, norm, mode='same')[size // 2 + k], times size^2.
Correlation(y, k) == SumSeq([i \in 1..(Len(y) - k) |-> y[i] * y[i + k]], Len(y) - k)

\* The lags the autocorrelation is kept for: autocorr[size // 2 + 1:] holds
\* lags 1 .. size - 1 - size // 2, and autocorr[minimum:] drops the first ten.
KeptLags(size) == (MinimumLag + 1)..(size - 1 - (size \div 2))

\* autocorr.argmax() as a lag: the first lag whose coefficient
\* Correlation(y, k) / (var * (size - k)) is the largest.  Coefficients are
\* compared cross-multiplied.
ArgmaxLag(y, lags) ==
    CHOOSE k \in lags :
        \A j \in lags :
            LET ck == Correlation(y, k) * (Len(y) - j)
                cj == Correlation(y, j) * (Len(y) - k)
            IN  ck > cj \/ (ck = cj /\ k <= j)

\* SlidingWindow._ac_window_size: [error, size].  argmax of an empty array
\* raises ValueError; a series without variance has no coefficient above
\* 0.5; the lag is returned when its coefficient
\* size * Correlation(y, lag) / (Correlation(y, 0) * (size - lag)) exceeds 0.5.
AcWindowSize(seg, data) ==
    LET size == Len(data)
        y == Centred(data)
    IN  IF KeptLags(size) = {} THEN [error |-> InvalidInput, size |-> None]
        ELSE IF Correlation(y, 0) = 0 THEN [error |-> NoError, size |-> seg.window_fallback]
        ELSE LET lag == ArgmaxLag(y, KeptLags(size))
             IN  IF 2 * size * Correlation(y, lag) > Correlation(y, 0) * (size - lag)
                 THEN [error |-> NoError, size |-> lag]
                 ELSE [error |-> NoError, size |-> seg.window_fallback]

\* np.lib.stride_tricks.sliding_window_view(data, W)
SlidingWindowView(data, W) == [i \in 1..(Len(data) - W + 1) |-> SubSeq(data, i, i + W - 1)]

\* A stride that takes every window.
Strided_Every(windows, S) == windows

\* windows[::S]
Strided(windows, S) ==
    [j \in 1..((Len(windows) + S - 1) \div S) |-> windows[(j - 1) * S + 1]]

\* SlidingWindow.segment(data) for one-dimensional data:
\* [segmenter, error, windows].  The derived size is stored before the length
\* is checked; the length check is made on the series before differencing,
\* and sliding_window_view raises ValueError for a window longer than the
\* differenced series.
Segment(seg, data) ==
    LET ac == IF seg.autocorrelation /\ seg.window_size = None
              THEN AcWindowSize(seg, data)
              ELSE [error |-> NoError, size |-> seg.window_size]
        seg1 == [seg EXCEPT !.window_size = ac.size]
        eff == IF seg.differentiation THEN Diff(data) ELSE data
    IN  IF ac.error # NoError
        THEN [segmenter |-> seg, error |-> ac.error, windows |-> <<>>]
        ELSE IF Len(data) < seg1.window_size \/ Len(eff) < seg1.window_size
        THEN [segmenter |-> seg1, error |-> InvalidInput, windows |-> <<>>]
        ELSE [segmenter |-> seg1, error |-> NoError,
              windows |-> Strided(SlidingWindowView(eff, seg1.window_size), seg1.step_size)]

\* SlidingWindow.__init__ for a window and a step that are positive.
NewSlidingWindow(params) ==
    [window_size |-> IF params.autocorrelation THEN None ELSE params.window_size,
     window_fallback |-> IF params.autocorrelation THEN params.window_size ELSE None,
     step_size |-> params.step_size,
     autocorrelation |-> params.autocorrelation,
     differentiation |-> params.differentiation]

SegmenterParams ==
    [window_size : 1..3, step_size : 1..3, autocorrelation : BOOLEAN,
     differentiation : BOOLEAN]

\* The series segment is called with: the squares 1, 4, 9, ... up to MaxData
\* points, two periodic series of thirty points, a ramp and a constant
\* series of twenty-four points.
Squares(n) == [i \in 1..n |-> i * i]
Periodic(n, period) == [i \in 1..n |-> (i - 1) % period]
SegmentData ==
    {Squares(n) : n \in 0..MaxData}
    \cup {Periodic(30, 12), Periodic(30, 11), Periodic(24, 24), Periodic(24, 1)}

InitSegmenter ==
    /\ cfg = [model |-> "SlidingWindow"]
    /\ segmenter \in {NewSlidingWindow(params) : params \in SegmenterParams}
    /\ nodes = <<>>
    /\ tree = EmptyTree
    /\ graph = EmptyLayered
    /\ nws = EmptyNws
    /\ matching = NewMatching(0)
    /\ nestedword = EmptyNW
    /\ dfa = <<>>
    /\ calls = 0
    /\ learned = <<>>
    /\ last = [op |-> "init", data |-> <<>>, error |-> NoError, windows |-> <<>>,
               first |-> <<>>]

\* segmenter.segment(data); last.first is the series of the first call.
SegmentCall ==
    /\ cfg.model = "SlidingWindow"
    /\ calls < MaxSegments
    /\ \E data \in SegmentData :
       \E r \in {Segment(segmenter, data)} :
        /\ segmenter' = r.segmenter
        /\ last' = [op |-> "segment", data |-> data, error |-> r.error,
                    windows |-> r.windows,
                    first |-> IF calls = 0 THEN data ELSE last.first]
    /\ calls' = calls + 1
    /\ UNCHANGED <<cfg, dfa, nestedword, nodes, tree, graph, nws, matching, learned>>

NextSegmenter == SegmentCall

SpecSegmenter == InitSegmenter /\ [][NextSegmenter]_vars

\* The series the windows are cut from: the data of the last call, after
\* differencing when it is enabled.
EffectiveData == IF segmenter.differentiation THEN Diff(last.data) ELSE last.data

\* The i-th window of length W at stride S of a series, i counted from 0.
WindowAt(data, W, S, i) == SubSeq(data, i * S + 1, i * S + W)

\* C28: segment on data of effective length n (after the optional
\* differencing) with window size W <= n and step S returns exactly
\* floor((n - W) / S) + 1 windows of length W, the i-th being
\* data[i * S .. i * S + W).
C28_WindowCount ==
    LET n == Len(EffectiveData)
        W == segmenter.window_size
        S == segmenter.step_size
    IN  (cfg.model = "SlidingWindow" /\ last.op = "segment" /\ W # None /\ W <= n) =>
            /\ last.error = NoError
            /\ Len(last.windows) = (n - W) \div S + 1
            /\ \A i \in 0..(Len(last.windows) - 1) :
                last.windows[i + 1] = WindowAt(EffectiveData, W, S, i)

\* C28 as stated: the number of windows is ceil((n - W) / S) + 1.
C28_WindowCountCeiling ==
    LET n == Len(EffectiveData)
        W == segmenter.window_size
        S == segmenter.step_size
    IN  (cfg.model = "SlidingWindow" /\ last.op = "segment" /\ W # None /\ W <= n) =>
            /\ last.error = NoError
            /\ Len(last.windows) = (n - W + S - 1) \div S + 1
            /\ \A i \in 0..(Len(last.windows) - 1) :
                last.windows[i + 1] = WindowAt(EffectiveData, W, S, i)

\* A differenced series cut at a step that does not divide n - W: the last
\* points of the series are in no window.
C28_Witness ==
    /\ cfg.model = "SlidingWindow" /\ last.op = "segment" /\ last.error = NoError
    /\ segmenter.differentiation /\ segmenter.step_size = 2 /\ segmenter.window_size = 2
    /\ Len(EffectiveData) = 5
    /\ last.windows = <<<<3, 5>>, <<7, 9>>>>

\* C29: with autocorrelation enabled the window size is derived on the first
\* segment call only, from the series of that call, and later calls use the
\* cached size whatever their data; when the derivation finds no period the
\* configured size is used.
C29_WindowSizeCached ==
    (cfg.model = "SlidingWindow" /\ segmenter.autocorrelation /\ last.op = "segment") =>
        LET ac == AcWindowSize(segmenter, last.first)
        IN  /\ segmenter.window_size # None
            /\ segmenter.window_size =
                    IF ac.error = NoError THEN ac.size ELSE segmenter.window_fallback
            /\ last.error = NoError => \A i \in 1..Len(last.windows) :
                    Len(last.windows[i]) = segmenter.window_size

\* ---------------------------------------------------------------------------
\* DFA: add_state, add_symbol, set_transition and step.
\* ---------------------------------------------------------------------------
MaxIdentifier == 2
MaxTransitions == 2

\* An argument that is not an integer (the string "q").
NotAnInteger == -7

\* DFA.__init__: state 0 and nothing else.  transitions maps a state to a
\* function from symbols to sets of states.
NewDfa ==
    [states |-> {0}, alphabet |-> {}, initial |-> 0, final |-> {}, transitions |-> <<>>,
     free_identifier |-> 0]

\* DFA.__next_free_identifier
NextFreeIdentifier(d) ==
    Min({i \in d.free_identifier..(d.free_identifier + Cardinality(d.states \cup d.alphabet)) :
            i \notin d.states \cup d.alphabet})

\* DFA.add_state() without a label
AddState(d) ==
    [d EXCEPT !.states = @ \cup {NextFreeIdentifier(d)},
              !.free_identifier = NextFreeIdentifier(d)]

\* DFA.add_symbol() without a label
AddSymbol(d) ==
    [d EXCEPT !.alphabet = @ \cup {NextFreeIdentifier(d)},
              !.free_identifier = NextFreeIdentifier(d)]

\* DFA.__validate_state: the error raised, or none.
ValidateState(d, state) ==
    IF state \in {None, NotAnInteger} THEN "TypeError"
    ELSE IF state \notin d.states THEN InvalidInput
    ELSE NoError

\* DFA.__validate_symbol: the error raised, or none.
ValidateSymbol(d, symbol) ==
    IF symbol = None THEN InvalidInput
    ELSE IF symbol = NotAnInteger THEN "TypeError"
    ELSE IF symbol \notin d.alphabet THEN InvalidInput
    ELSE NoError

\* The first of the three validations of set_transition that raises.
ValidateTransition(d, s1, s2, symbol) ==
    IF ValidateState(d, s1) # NoError THEN ValidateState(d, s1)
    ELSE IF ValidateState(d, s2) # NoError THEN ValidateState(d, s2)
    ELSE ValidateSymbol(d, symbol)

\* self.transitions.setdefault(s1, {})
SetDefault(T, s1) ==
    [x \in DOMAIN T \cup {s1} |-> IF x \in DOMAIN T THEN T[x] ELSE <<>>]

\* A set_transition that adds the target to the targets already there.
SetTransition_AddsTarget(d, s1, s2, symbol) ==
    IF ValidateTransition(d, s1, s2, symbol) # NoError
    THEN [dfa |-> d, error |-> ValidateTransition(d, s1, s2, symbol)]
    ELSE LET T == SetDefault(d.transitions, s1)
             old == IF symbol \in DOMAIN T[s1] THEN T[s1][symbol] ELSE {}
         IN  [dfa |-> [d EXCEPT !.transitions =
                        [T EXCEPT ![s1] = [a \in DOMAIN T[s1] \cup {symbol} |->
                            IF a = symbol THEN old \cup {s2} ELSE T[s1][a]]]],
              error |-> NoError]

\* DFA.set_transition(s1, s2, symbol): [dfa, error]
SetTransition(d, s1, s2, symbol) ==
    IF ValidateTransition(d, s1, s2, symbol) # NoError
    THEN [dfa |-> d, error |-> ValidateTransition(d, s1, s2, symbol)]
    ELSE LET T == SetDefault(d.transitions, s1)
         IN  IF symbol \in DOMAIN T[s1]
             THEN [dfa |-> [d EXCEPT !.transitions = T], error |-> InvalidInput]
             ELSE [dfa |-> [d EXCEPT !.transitions =
                            [T EXCEPT ![s1] = [a \in DOMAIN T[s1] \cup {symbol} |->
                                IF a = symbol THEN {s2} ELSE T[s1][a]]]],
                   error |-> NoError]

\* DFA.step(state, symbol): [error, value]
Step(d, state, symbol) ==
    IF ValidateState(d, state) # NoError
    THEN [error |-> ValidateState(d, state), value |-> {}]
    ELSE IF ValidateSymbol(d, symbol) # NoError
    THEN [error |-> ValidateSymbol(d, symbol), value |-> {}]
    ELSE [error |-> NoError,
          value |-> IF state \in DOMAIN d.transitions /\ symbol \in DOMAIN d.transitions[state]
                    THEN d.transitions[state][symbol] ELSE {}]

\* The arguments set_transition and step are called with.
DfaArgs == {None, NotAnInteger} \cup 0..MaxIdentifier

InitDfa ==
    /\ cfg = [model |-> "DFA"]
    /\ dfa = NewDfa
    /\ segmenter = <<>>
    /\ nodes = <<>>
    /\ tree = EmptyTree
    /\ graph = EmptyLayered
    /\ nws = EmptyNws
    /\ matching = NewMatching(0)
    /\ nestedword = EmptyNW
    /\ calls = 0
    /\ learned = <<>>
    /\ last = [op |-> "init", args |-> <<>>, error |-> NoError, pre |-> NewDfa]

\* dfa.add_state()
DfaAddState ==
    /\ cfg.model = "DFA"
    /\ NextFreeIdentifier(dfa) <= MaxIdentifier
    /\ dfa' = AddState(dfa)
    /\ last' = [op |-> "add_state", args |-> <<>>, error |-> NoError, pre |-> dfa]
    /\ UNCHANGED <<cfg, segmenter, nestedword, nodes, tree, graph, nws, matching, calls, learned>>

\* dfa.add_symbol()
DfaAddSymbol ==
    /\ cfg.model = "DFA"
    /\ NextFreeIdentifier(dfa) <= MaxIdentifier
    /\ dfa' = AddSymbol(dfa)
    /\ last' = [op |-> "add_symbol", args |-> <<>>, error |-> NoError, pre |-> dfa]
    /\ UNCHANGED <<cfg, segmenter, nestedword, nodes, tree, graph, nws, matching, calls, learned>>

\* dfa.set_transition(s1, s2, symbol)
DfaSetTransition ==
    /\ cfg.model = "DFA"
    /\ calls < MaxTransitions
    /\ \E s1 \in DfaArgs, s2 \in DfaArgs, symbol \in DfaArgs :
        LET r == SetTransition(dfa, s1, s2, symbol)
        IN  /\ dfa' = r.dfa
            /\ last' = [op |-> "set_transition", args |-> <<s1, s2, symbol>>,
                        error |-> r.error, pre |-> dfa]
    /\ calls' = calls + 1
    /\ UNCHANGED <<cfg, segmenter, nestedword, nodes, tree, graph, nws, matching, learned>>

NextDfa == DfaAddState \/ DfaAddSymbol \/ DfaSetTransition

SpecDfa == InitDfa /\ [][NextDfa]_vars

\* s1 has an outgoing transition labelled symbol in d.
HasTransition(d, s1, symbol) ==
    s1 \in DOMAIN d.transitions /\ symbol \in DOMAIN d.transitions[s1]

\* C30: set_transition(s1, s2, a) fails when s1 already has an outgoing
\* transition labelled a, or when s1 or s2 is not a state identifier, or a is
\* not a symbol identifier; a failed call leaves the transitions unchanged;
\* and at any time step(state, symbol) returns no state or exactly one.
C30_Deterministic ==
    cfg.model = "DFA" =>
        /\ last.op = "set_transition" =>
            LET s1 == last.args[1]
                s2 == last.args[2]
                a == last.args[3]
            IN  /\ (s1 \notin last.pre.states \/ s2 \notin last.pre.states
                        \/ a \notin last.pre.alphabet \/ HasTransition(last.pre, s1, a))
                    => last.error # NoError
                /\ last.error # NoError => dfa.transitions = last.pre.transitions
        /\ \A state \in DfaArgs : \A symbol \in DfaArgs :
            Cardinality(Step(dfa, state, symbol).value) <= 1

\* A second transition from state 0 under the same symbol, to another state,
\* is refused, and step still returns the first target alone.
C30_Witness ==
    /\ cfg.model = "DFA" /\ last.op = "set_transition" /\ last.error = InvalidInput
    /\ last.args[1] \in dfa.states /\ last.args[2] \in dfa.states
    /\ last.args[3] \in dfa.alphabet
    /\ HasTransition(last.pre, last.args[1], last.args[3])
    /\ Step(dfa, last.args[1], last.args[3]).error = NoError
    /\ Step(dfa, last.args[1], last.args[3]).value # {last.args[2]}
    /\ Cardinality(Step(dfa, last.args[1], last.args[3]).value) = 1

\* ---------------------------------------------------------------------------
\* hpm(train, test, parameters) with the Summation discretiser of one frame
\* per depth and SumNode nodes.
\* ---------------------------------------------------------------------------
MaxTrain == 3
MaxTest == 4

\* Summation.discretise with frames(depth) = 1: at every depth the sum of the
\* window.
Discretise(window, max_depth) == [d \in 1..max_depth |-> SumSeq(window, Len(window))]

\* [discretiser.discretise(segment) for segment in windows]
DiscretiseAll(windows, max_depth) ==
    [i \in 1..Len(windows) |-> Discretise(windows[i], max_depth)]

\* The pattern model a model keeps its chains in: itself, or the patterns of
\* a NestedWordSet.
HpmPatterns(c) ==
    IF c.model = "NestedWordSet" THEN c ELSE [c EXCEPT !.pattern_model = c.model]

\* One model.update(chain) of learn on the state [tree, graph, nws, ret,
\* raised]: the update of the pattern model, followed for a NestedWordSet by
\* the rest of its update.
HpmUpdate(c, st, chain) ==
    CHOOSE out \in {IF c.model = "NestedWordSet" THEN UpdateQueue(c, p, st.nws, chain)
                    ELSE [tree |-> p.tree, graph |-> p.graph, nws |-> st.nws, ret |-> <<>>,
                          raised |-> p.raised] :
                        p \in {PatternsUpdate(HpmPatterns(c), st.tree, st.graph, chain)}} : TRUE

RECURSIVE HpmLearn(_, _, _, _)
\* model.learn(training_chains): update after update, stopping at the first
\* that raises.
HpmLearn(c, st, chains, i) ==
    IF i > Len(chains) \/ st.raised THEN st
    ELSE CHOOSE out \in {HpmLearn(c, next, chains, i + 1) :
                            next \in {HpmUpdate(c, st, chains[i])}} : TRUE

\* counts[point] += 1 and scores[point] += hit for the points of a range
\* that counts hits only.
Accumulate_HitsOnly(acc, start_point, end_point, hit) ==
    [counts |-> [t \in 1..Len(acc.counts) |->
                    acc.counts[t] + (IF hit /\ start_point < t /\ t <= end_point THEN 1 ELSE 0)],
     scores |-> [t \in 1..Len(acc.scores) |->
                    acc.scores[t] + (IF hit /\ start_point < t /\ t <= end_point THEN 1 ELSE 0)]]

\* for point in range(start_point, end_point): counts[point] += 1;
\* scores[point] += float(contains_pattern)
Accumulate(acc, start_point, end_point, hit) ==
    [counts |-> [t \in 1..Len(acc.counts) |->
                    acc.counts[t] + (IF start_point < t /\ t <= end_point THEN 1 ELSE 0)],
     scores |-> [t \in 1..Len(acc.scores) |->
                    acc.scores[t] + (IF hit /\ start_point < t /\ t <= end_point THEN 1 ELSE 0)]]

\* model.contains(chain) of a pattern model.
PatternsContains(c, T, G, chain) ==
    IF c.model = "PatternTree" THEN TreeContains(c, T, chain) ELSE GraphContains(c, G, chain)

\* One pass of the loop over the test chains of a pattern model.
HpmWindow(c, st, seg, chains, n, i, acc) ==
    [st |-> st,
     acc |-> Merge(Accumulate(acc, i * seg.step_size,
                              Min({i * seg.step_size + seg.window_size, n}),
                              PatternsContains(c, st.tree, st.graph, chains[i + 1])),
                   [raised |-> FALSE])]

\* The words of the chains of a context.
ContextWords(c, st, context) ==
    [j \in 1..Len(context) |-> ChainToNw(c, st.tree, st.graph, context[j])]

\* One pass of the loop over the contexts of context_size test chains of a
\* NestedWordSet; the contains call leaves its combinations in the cache.
HpmContext(c, st, seg, chains, n, i, acc) ==
    CHOOSE out \in
        {[st |-> [st EXCEPT !.nws.combined_cache = folded.cache],
          acc |-> Merge(Accumulate(acc, i * seg.step_size,
                                   Min({(i + c.context_size - 1) * seg.step_size
                                            + seg.window_size, n}),
                                   folded.value \in st.nws.nested_words),
                        [raised |-> IsRaised(folded.value)])] :
            folded \in {CombineFold(st.nws.combined_cache, EmptyNW,
                                    ContextWords(c, st,
                                                 SubSeq(chains, i + 1, i + c.context_size)),
                                    1)}} : TRUE

RECURSIVE HpmLoop(_, _, _, _, _, _, _)
\* The scoring loop: over the test chains, or over the contexts when
\* model_params holds a context_size (0 stands for none).  [st, acc], acc
\* being [counts, scores, raised].
HpmLoop(c, st, seg, chains, n, i, acc) ==
    IF acc.raised \/ i > Len(chains) - (IF c.context_size # 0 THEN c.context_size ELSE 1)
    THEN [st |-> st, acc |-> acc]
    ELSE CHOOSE out \in {HpmLoop(c, r.st, seg, chains, n, i + 1, r.acc) :
                            r \in {IF c.context_size # 0
                                   THEN HpmContext(c, st, seg, chains, n, i, acc)
                                   ELSE HpmWindow(c, st, seg, chains, n, i, acc)}} : TRUE

\* np.divide(scores, counts, out=zeros, where=counts != 0): a score is the
\* fraction [num, den], 0 / 1 where counts is 0.
Divide(acc) ==
    [t \in 1..Len(acc.counts) |->
        IF acc.counts[t] = 0 THEN [num |-> 0, den |-> 1]
        ELSE [num |-> acc.scores[t], den |-> acc.counts[t]]]

\* The model before learn.
HpmEmpty ==
    [tree |-> EmptyTree, graph |-> EmptyLayered, nws |-> EmptyNws, ret |-> <<>>,
     raised |-> FALSE]

\* np.zeros(len(test)), twice.
HpmZeros(n) ==
    [counts |-> [t \in 1..n |-> 0], scores |-> [t \in 1..n |-> 0], raised |-> FALSE]

\* What hpm raises, or none: the error of the first segment call that
\* fails, or of learn or contains.
HpmError(s1, s2, st, loop) ==
    IF s1.error # NoError THEN s1.error
    ELSE IF s2.error # NoError THEN s2.error
    ELSE IF st.raised \/ loop.acc.raised THEN InvalidInput
    ELSE NoError

\* The models hpm is run with, their SumNode nodes matched closest first or
\* first found, and the segmenters and depths.
HpmModels ==
    {c \in ModelConfigs : c.kind = "Sum"} \cup QueryConfigs
HpmConfigs ==
    {Merge(c, [segmenter_params |-> sp, max_depth |-> D]) :
        c \in HpmModels,
        sp \in {x \in SegmenterParams : x.window_size = 2 /\ x.step_size <= 2
                                        /\ ~x.autocorrelation},
        D \in 1..2}

\* The series: zeros and threes.
Series(lens) == UNION {[1..n -> {0, 3}] : n \in lens}

InitHpm ==
    /\ cfg \in HpmConfigs
    /\ segmenter = <<>>
    /\ dfa = <<>>
    /\ nodes = <<>>
    /\ tree = EmptyTree
    /\ graph = EmptyLayered
    /\ nws = EmptyNws
    /\ matching = NewMatching(0)
    /\ nestedword = EmptyNW
    /\ calls = 0
    /\ learned = <<>>
    /\ last = [op |-> "init", train |-> <<>>, test |-> <<>>, error |-> NoError,
               scores |-> <<>>, counts |-> <<>>]

\* scores = hpm(train, test, parameters): both series are segmented and
\* discretised, the model learns the training chains and the test chains are
\* scored.  The segmenter and the model hpm built are kept.
HpmCall ==
    /\ calls = 0
    /\ "segmenter_params" \in DOMAIN cfg
    /\ \E train \in Series(2..MaxTrain), test \in Series(0..MaxTest) :
       \E s1 \in {Segment(NewSlidingWindow(cfg.segmenter_params), train)} :
       \E s2 \in {Segment(s1.segmenter, test)} :
       \E training_chains \in {DiscretiseAll(s1.windows, cfg.max_depth)} :
       \E testing_chains \in {DiscretiseAll(s2.windows, cfg.max_depth)} :
       \E st \in {HpmLearn(cfg, HpmEmpty, training_chains, 1)} :
       \E loop \in {HpmLoop(cfg, st, s2.segmenter, testing_chains, Len(test), 0,
                            HpmZeros(Len(test)))} :
       \E error \in {HpmError(s1, s2, st, loop)} :
        /\ segmenter' = s2.segmenter
        /\ tree' = loop.st.tree
        /\ graph' = loop.st.graph
        /\ nws' = loop.st.nws
        /\ last' = [op |-> "hpm", train |-> train, test |-> test, error |-> error,
                    scores |-> IF error = NoError THEN Divide(loop.acc) ELSE <<>>,
                    counts |-> IF error = NoError THEN loop.acc.counts ELSE <<>>]
    /\ calls' = 1
    /\ UNCHANGED <<cfg, dfa, nestedword, nodes, matching, learned>>

NextHpm == HpmCall

SpecHpm == InitHpm /\ [][NextHpm]_vars

\* The series the test windows are cut from.
TestData == IF segmenter.differentiation THEN Diff(last.test) ELSE last.test

\* The test windows, or for a NestedWordSet the contexts of context_size
\* consecutive windows, counted from 0.
TestUnits ==
    LET windows == (Len(TestData) - segmenter.window_size) \div segmenter.step_size + 1
    IN  IF cfg.model = "NestedWordSet" THEN 0..(windows - cfg.context_size)
        ELSE 0..(windows - 1)

\* The chain of the i-th test window.
TestChain(i) ==
    Discretise(WindowAt(TestData, segmenter.window_size, segmenter.step_size, i),
               cfg.max_depth)

\* Test point t lies in the range of unit i.
Covers(i, t) ==
    LET k == IF cfg.model = "NestedWordSet" THEN cfg.context_size ELSE 1
    IN  /\ i * segmenter.step_size <= t
        /\ t < (i + k - 1) * segmenter.step_size + segmenter.window_size
        /\ t < Len(last.test)

\* The learned model contains unit i.
Contained(i) ==
    IF cfg.model = "NestedWordSet"
    THEN NwsContainsValue([j \in 1..cfg.context_size |-> TestChain(i + j - 1)])
    ELSE Contains(TestChain(i))

\* C27: hpm returns one score per test point; every score lies in [0, 1],
\* is the fraction of the test windows (for a NestedWordSet, window contexts)
\* covering the point that the model contains, and is 0 for a point that no
\* window covers.  hpm fails only when a series is shorter than the window.
C27_Scores ==
    ("max_depth" \in DOMAIN cfg /\ last.op = "hpm") =>
        IF last.error # NoError
        THEN \/ Len(last.train) - (IF segmenter.differentiation THEN 1 ELSE 0)
                    < segmenter.window_size
             \/ Len(TestData) < segmenter.window_size
        ELSE /\ Len(last.scores) = Len(last.test)
             /\ \A t \in 0..(Len(last.test) - 1) :
                LET cover == {i \in TestUnits : Covers(i, t)}
                    hits == {i \in cover : Contained(i)}
                    score == last.scores[t + 1]
                IN  /\ 0 <= score.num /\ score.num <= score.den
                    /\ IF cover = {} THEN score.num = 0
                       ELSE /\ score.num = Cardinality(hits)
                            /\ score.den = Cardinality(cover)

\* One run whose scores are 1, 1/2 and 0: a point in two windows of which one
\* is known, a point in unknown windows only, and a point in no window.
C27_Witness ==
    /\ "max_depth" \in DOMAIN cfg /\ last.op = "hpm" /\ last.error = NoError
    /\ Len(last.test) = 4
    /\ \E t \in 1..4 : last.scores[t] = [num |-> 1, den |-> 2]
    /\ \E t \in 1..4 : last.scores[t] = [num |-> 1, den |-> 1]
    /\ \E t \in 1..4 : last.scores[t] = [num |-> 0, den |-> 1]
         /\ {i \in TestUnits : Covers(i, t - 1)} = {}

\* ---------------------------------------------------------------------------
\* DFA and biDFA with associated objects: states and alphabet are bidicts
\* from object to identifier.
\* ---------------------------------------------------------------------------
MaxWord == 5
MaxPower == 10

\* The string object with code n; the integers from 0 are the int objects.
Quoted(n) == 100 + n

\* bidict[key] = val for a val that no key holds: a key that is there already
\* is overwritten.
BidictPut(b, key, val) ==
    [k \in DOMAIN b \cup {key} |-> IF k = key THEN val ELSE b[k]]

\* bidict.inverse: the identifiers in use.
Inverse(b) == {b[k] : k \in DOMAIN b}

\* DFA.__init__ with its bidicts: the object None is state 0.
NewDfaObj ==
    [states |-> [k \in {None} |-> 0], alphabet |-> <<>>, initial |-> 0, final |-> {},
     transitions |-> <<>>, free_identifier |-> 0]

\* DFA.__next_free_identifier on the bidicts.
NextFreeIdentifierObj(d) ==
    Min({i \in d.free_identifier..
                (d.free_identifier + Cardinality(Inverse(d.states) \cup Inverse(d.alphabet))) :
            i \notin Inverse(d.states) \cup Inverse(d.alphabet)})

\* DFA.add_state(state): [dfa, error, value].  The free identifier is
\* advanced before the object is looked at.
AddStateObj(d, state) ==
    IF state # None /\ state \in DOMAIN d.states
    THEN [dfa |-> [d EXCEPT !.free_identifier = NextFreeIdentifierObj(d)],
          error |-> InvalidInput, value |-> None]
    ELSE [dfa |-> [d EXCEPT !.free_identifier = NextFreeIdentifierObj(d),
                            !.states = BidictPut(@, IF state = None
                                                    THEN NextFreeIdentifierObj(d) ELSE state,
                                                 NextFreeIdentifierObj(d))],
          error |-> NoError, value |-> NextFreeIdentifierObj(d)]

\* DFA.add_symbol(symbol): [dfa, error, value]
AddSymbolObj(d, symbol) ==
    IF symbol # None /\ symbol \in DOMAIN d.alphabet
    THEN [dfa |-> [d EXCEPT !.free_identifier = NextFreeIdentifierObj(d)],
          error |-> InvalidInput, value |-> None]
    ELSE [dfa |-> [d EXCEPT !.free_identifier = NextFreeIdentifierObj(d),
                            !.alphabet = BidictPut(@, IF symbol = None
                                                      THEN NextFreeIdentifierObj(d) ELSE symbol,
                                                   NextFreeIdentifierObj(d))],
          error |-> NoError, value |-> NextFreeIdentifierObj(d)]

\* DFA.set_transition on the bidicts, for identifiers that are integers.
SetTransitionObj(d, s1, s2, symbol) ==
    IF s1 \notin Inverse(d.states) \/ s2 \notin Inverse(d.states)
            \/ symbol \notin Inverse(d.alphabet)
    THEN [dfa |-> d, error |-> InvalidInput]
    ELSE IF HasTransition([d EXCEPT !.transitions = SetDefault(@, s1)], s1, symbol)
    THEN [dfa |-> [d EXCEPT !.transitions = SetDefault(@, s1)], error |-> InvalidInput]
    ELSE [dfa |-> [d EXCEPT !.transitions =
                    [x \in DOMAIN @ \cup {s1} |->
                        [a \in (IF x \in DOMAIN @ THEN DOMAIN @[x] ELSE {})
                                    \cup (IF x = s1 THEN {symbol} ELSE {}) |->
                            IF x = s1 /\ a = symbol THEN {s2} ELSE @[x][a]]]],
          error |-> NoError]

\* DFA.step(state, sid) on the bidicts; sid is None for a symbol that
\* alphabet.get did not find.
StepObj(d, state, sid) ==
    IF state \notin Inverse(d.states) \/ sid = None \/ sid \notin Inverse(d.alphabet)
    THEN [error |-> InvalidInput, value |-> {}]
    ELSE [error |-> NoError,
          value |-> IF HasTransition(d, state, sid) THEN d.transitions[state][sid] ELSE {}]

\* biDFA.add_left(state) and biDFA.add_right(state): [dfa, error, value]
AddLeft(d, state) ==
    CHOOSE out \in {IF r.error # NoError THEN r
                    ELSE [r EXCEPT !.dfa.left = @ \cup {r.value}] :
                        r \in {AddStateObj(d, state)}} : TRUE
AddRight(d, state) ==
    CHOOSE out \in {IF r.error # NoError THEN r
                    ELSE [r EXCEPT !.dfa.right = @ \cup {r.value}] :
                        r \in {AddStateObj(d, state)}} : TRUE

\* cls(name); d.states.clear(); d.left = set(); d.initial = None
ClearedBidfa ==
    [states |-> <<>>, alphabet |-> <<>>, initial |-> None, final |-> {},
     transitions |-> <<>>, free_identifier |-> 0, left |-> {}, right |-> {}]

RECURSIVE AddAll(_, _, _, _)
\* The loop over the states of a left or a right line: [dfa, error]
AddAll(d, kind, states, i) ==
    IF i > Len(states) THEN [dfa |-> d, error |-> NoError]
    ELSE IF states[i] \in DOMAIN d.states THEN [dfa |-> d, error |-> InvalidInput]
    ELSE AddAll((IF kind = "left" THEN AddLeft(d, states[i])
                 ELSE AddRight(d, states[i])).dfa, kind, states, i + 1)

\* One line of a description, split in parts: [dfa, error]
DescriptionLine(d, line) ==
    IF line.kind \in {"left", "right"} THEN AddAll(d, line.kind, line.parts, 1)
    ELSE IF line.kind = "initial"
    THEN IF Len(line.parts) # 1 \/ d.initial # None THEN [dfa |-> d, error |-> InvalidInput]
         ELSE IF line.parts[1] \notin DOMAIN d.states THEN [dfa |-> d, error |-> InvalidInput]
         ELSE [dfa |-> [d EXCEPT !.initial = d.states[line.parts[1]]], error |-> NoError]
    ELSE IF line.kind = "final"
    THEN IF \E i \in 1..Len(line.parts) : line.parts[i] \notin DOMAIN d.states
         THEN [dfa |-> d, error |-> InvalidInput]
         ELSE [dfa |-> [d EXCEPT !.final = @ \cup {d.states[line.parts[i]] :
                                                    i \in 1..Len(line.parts)}],
               error |-> NoError]
    ELSE IF line.parts[1] \notin DOMAIN d.states \/ line.parts[2] \notin DOMAIN d.states
    THEN [dfa |-> d, error |-> InvalidInput]
    ELSE CHOOSE out \in
            {SetTransitionObj(e, e.states[line.parts[1]], e.states[line.parts[2]],
                              e.alphabet[line.parts[3]]) :
                e \in {IF line.parts[3] \in DOMAIN d.alphabet THEN d
                       ELSE AddSymbolObj(d, line.parts[3]).dfa}} : TRUE

RECURSIVE DescriptionLines(_, _, _)
\* The loop over the lines of a description: [dfa, error]
DescriptionLines(d, lines, i) ==
    IF i > Len(lines) THEN [dfa |-> d, error |-> NoError]
    ELSE CHOOSE out \in {IF r.error # NoError THEN r
                         ELSE DescriptionLines(r.dfa, lines, i + 1) :
                            r \in {DescriptionLine(d, lines[i])}} : TRUE

\* biDFA.from_description: [dfa, error]
FromDescription(lines) ==
    CHOOSE out \in {IF r.error = NoError /\ r.dfa.initial = None
                    THEN [dfa |-> r.dfa, error |-> InvalidInput] ELSE r :
                        r \in {DescriptionLines(ClearedBidfa, lines, 1)}} : TRUE

\* The symbols a, b and c and the state names "0" and "1".
SymbolA == Quoted(10)
SymbolB == Quoted(11)
SymbolC == Quoted(12)

\* left 0 / right 1 / initial 0 / final 0 / 0 1 a / 1 0 b
LeftRight ==
    <<[kind |-> "left", parts |-> <<Quoted(0)>>],
      [kind |-> "right", parts |-> <<Quoted(1)>>],
      [kind |-> "initial", parts |-> <<Quoted(0)>>],
      [kind |-> "final", parts |-> <<Quoted(0)>>],
      [kind |-> "transition", parts |-> <<Quoted(0), Quoted(1), SymbolA>>],
      [kind |-> "transition", parts |-> <<Quoted(1), Quoted(0), SymbolB>>]>>

\* The same automaton with state 0 a right state and state 1 a left state.
RightLeft ==
    [i \in 1..Len(LeftRight) |->
        IF LeftRight[i].kind = "left" THEN [LeftRight[i] EXCEPT !.kind = "right"]
        ELSE IF LeftRight[i].kind = "right" THEN [LeftRight[i] EXCEPT !.kind = "left"]
        ELSE LeftRight[i]]

\* The symbols of a word but the one at index.
Pop(symbols, index) ==
    [i \in 1..(Len(symbols) - 1) |-> IF i < index THEN symbols[i] ELSE symbols[i + 1]]

\* A follow that reads the leftmost symbol in every state.
RECURSIVE FollowFrom_LeftOnly(_, _, _)
FollowFrom_LeftOnly(d, state, symbols) ==
    IF Len(symbols) = 0 THEN [error |-> NoError, value |-> {state}]
    ELSE IF symbols[1] \notin DOMAIN d.alphabet THEN [error |-> InvalidInput, value |-> {}]
    ELSE CHOOSE out \in
            {IF r.error # NoError \/ r.value = {} THEN r
             ELSE FollowFrom_LeftOnly(d, CHOOSE q \in r.value : TRUE, Tail(symbols)) :
                r \in {StepObj(d, state, d.alphabet[symbols[1]])}} : TRUE

RECURSIVE FollowFrom(_, _, _)
\* The loop of biDFA.follow: the leftmost symbol is popped in a left state,
\* the rightmost in any other; [error, value].
FollowFrom(d, state, symbols) ==
    IF Len(symbols) = 0 THEN [error |-> NoError, value |-> {state}]
    ELSE CHOOSE out \in
            {IF symbols[index] \notin DOMAIN d.alphabet
             THEN [error |-> InvalidInput, value |-> {}]
             ELSE CHOOSE res \in
                    {IF r.error # NoError \/ r.value = {} THEN r
                     ELSE FollowFrom(d, CHOOSE q \in r.value : TRUE, Pop(symbols, index)) :
                        r \in {StepObj(d, state, d.alphabet[symbols[index]])}} : TRUE :
                index \in {IF state \in d.left THEN 1 ELSE Len(symbols)}} : TRUE

\* biDFA.follow(state, word): [error, value]
Follow(d, state, word) ==
    IF state \notin Inverse(d.states) THEN [error |-> InvalidInput, value |-> {}]
    ELSE FollowFrom(d, state, word)

\* biDFA.accept(word): [error, value]
Accept(d, word) ==
    IF \E i \in 1..Len(word) : word[i] \notin DOMAIN d.alphabet
    THEN [error |-> NoError, value |-> FALSE]
    ELSE CHOOSE out \in {[error |-> r.error,
                          value |-> r.error = NoError /\ r.value \cap d.final # {}] :
                            r \in {Follow(d, d.initial, word)}} : TRUE

\* a^n b^m
Powers(n, m) == [i \in 1..(n + m) |-> IF i <= n THEN SymbolA ELSE SymbolB]

\* The words accept and follow are called with: every word over {a, b} of at
\* most MaxWord symbols, a^n b^n and a^n b^(n+1) up to MaxPower, (aabb)^5, and
\* words with a symbol that is not in the alphabet.
BidfaWords ==
    SeqsUpTo({SymbolA, SymbolB}, MaxWord)
        \cup {Powers(n, n) : n \in 0..MaxPower}
        \cup {Powers(n, n + 1) : n \in 0..MaxPower}
        \cup {[i \in 1..20 |-> IF (i - 1) % 4 < 2 THEN SymbolA ELSE SymbolB]}
        \cup {<<SymbolC>>, <<SymbolA, SymbolC, SymbolB>>}

InitBidfa ==
    /\ cfg \in {[model |-> "biDFA", description |-> LeftRight],
                [model |-> "biDFA", description |-> RightLeft]}
    /\ dfa = FromDescription(cfg.description).dfa
    /\ segmenter = <<>>
    /\ nodes = <<>>
    /\ tree = EmptyTree
    /\ graph = EmptyLayered
    /\ nws = EmptyNws
    /\ matching = NewMatching(0)
    /\ nestedword = EmptyNW
    /\ calls = 0
    /\ learned = <<>>
    /\ last = [op |-> "init", args |-> <<>>, error |-> NoError, value |-> {}]

\* d.accept(word)
BidfaAccept ==
    /\ cfg.model = "biDFA"
    /\ \E word \in BidfaWords :
       \E r \in {Accept(dfa, word)} :
        last' = [op |-> "accept", args |-> <<word>>, error |-> r.error, value |-> r.value]
    /\ UNCHANGED <<cfg, dfa, segmenter, nestedword, nodes, tree, graph, nws, matching, calls,
                   learned>>

\* d.follow(state, word)
BidfaFollow ==
    /\ cfg.model = "biDFA"
    /\ \E state \in 0..2, word \in BidfaWords :
       \E r \in {Follow(dfa, state, word)} :
        last' = [op |-> "follow", args |-> <<state, word>>, error |-> r.error,
                 value |-> r.value]
    /\ UNCHANGED <<cfg, dfa, segmenter, nestedword, nodes, tree, graph, nws, matching, calls,
                   learned>>

NextBidfa == BidfaAccept \/ BidfaFollow

SpecBidfa == InitBidfa /\ [][NextBidfa]_vars

\* The word is a^n b^n for some n.
IsAnBn(word) ==
    /\ Len(word) % 2 = 0
    /\ \A i \in 1..Len(word) :
        word[i] = (IF i <= Len(word) \div 2 THEN SymbolA ELSE SymbolB)

\* C31: the biDFA with left state 0, right state 1, initial and final state
\* 0 and transitions 0 -a-> 1 and 1 -b-> 0 accepts a word over {a, b} if and
\* only if it is a^n b^n; from the left state 0 follow reads the leftmost
\* symbol, which must be a, and from the right state 1 the rightmost, which
\* must be b, and continues on the remaining symbols.
C31_AcceptsAnBn ==
    (cfg.model = "biDFA" /\ cfg.description = LeftRight) =>
        /\ dfa.left = {0} /\ dfa.right = {1} /\ dfa.initial = 0 /\ dfa.final = {0}
        /\ last.op = "accept" /\ Range(last.args[1]) \subseteq {SymbolA, SymbolB} =>
            /\ last.error = NoError
            /\ last.value <=> IsAnBn(last.args[1])
        /\ (last.op = "follow" /\ last.args[1] \in {0, 1} /\ Len(last.args[2]) > 0
                /\ Range(last.args[2]) \subseteq {SymbolA, SymbolB}) =>
            LET state == last.args[1]
                word == last.args[2]
                n == Len(word)
            IN  /\ last.error = NoError
                /\ last.value =
                    IF state = 0
                    THEN IF word[1] = SymbolA THEN Follow(dfa, 1, Tail(word)).value ELSE {}
                    ELSE IF word[n] = SymbolB
                         THEN Follow(dfa, 0, SubSeq(word, 1, n - 1)).value ELSE {}

\* a^10 b^10 is accepted.
C31_Witness ==
    /\ cfg.model = "biDFA" /\ cfg.description = LeftRight
    /\ last.op = "accept" /\ last.args[1] = Powers(10, 10) /\ last.value = TRUE

\* ---------------------------------------------------------------------------
\* DFA.add_state and DFA.add_symbol with and without an associated object.
\* ---------------------------------------------------------------------------
MaxAdditions == 3
MaxObject == 3

\* The objects a state or a symbol is added with: none, the integers from 1
\* and a string.
DfaObjects == {None, Quoted(0)} \cup 1..MaxObject

InitDfaObj ==
    /\ cfg = [model |-> "DFAObj"]
    /\ dfa = NewDfaObj
    /\ segmenter = <<>>
    /\ nodes = <<>>
    /\ tree = EmptyTree
    /\ graph = EmptyLayered
    /\ nws = EmptyNws
    /\ matching = NewMatching(0)
    /\ nestedword = EmptyNW
    /\ calls = 0
    /\ learned = <<>>
    /\ last = [op |-> "init", args |-> <<>>, error |-> NoError, value |-> None,
               pre |-> NewDfaObj]

\* dfa.add_state(state)
DfaAddStateObj ==
    /\ cfg.model = "DFAObj"
    /\ calls < MaxAdditions
    /\ \E state \in DfaObjects :
       \E r \in {AddStateObj(dfa, state)} :
        /\ dfa' = r.dfa
        /\ last' = [op |-> "add_state", args |-> <<state>>, error |-> r.error,
                    value |-> r.value, pre |-> dfa]
    /\ calls' = calls + 1
    /\ UNCHANGED <<cfg, segmenter, nestedword, nodes, tree, graph, nws, matching, learned>>

\* dfa.add_symbol(symbol)
DfaAddSymbolObj ==
    /\ cfg.model = "DFAObj"
    /\ calls < MaxAdditions
    /\ \E symbol \in DfaObjects :
       \E r \in {AddSymbolObj(dfa, symbol)} :
        /\ dfa' = r.dfa
        /\ last' = [op |-> "add_symbol", args |-> <<symbol>>, error |-> r.error,
                    value |-> r.value, pre |-> dfa]
    /\ calls' = calls + 1
    /\ UNCHANGED <<cfg, segmenter, nestedword, nodes, tree, graph, nws, matching, learned>>

NextDfaObj == DfaAddStateObj \/ DfaAddSymbolObj

SpecDfaObj == InitDfaObj /\ [][NextDfaObj]_vars

\* Every entry of the bidict before is an entry of the bidict after.
KeepsEntries(before, after) ==
    \A k \in DOMAIN before : k \in DOMAIN after /\ after[k] = before[k]

\* C40: every successful add_state or add_symbol returns an identifier used
\* by no existing state or symbol, increases the number of states
\* (respectively symbols) by exactly one, and keeps every earlier state and
\* symbol with its identifier.
C40_AddsOneFreshIdentifier ==
    (cfg.model = "DFAObj" /\ last.op \in {"add_state", "add_symbol"}
            /\ last.error = NoError) =>
        /\ last.value \notin Inverse(last.pre.states) \cup Inverse(last.pre.alphabet)
        /\ Cardinality(DOMAIN dfa.states) = Cardinality(DOMAIN last.pre.states)
                + (IF last.op = "add_state" THEN 1 ELSE 0)
        /\ Cardinality(DOMAIN dfa.alphabet) = Cardinality(DOMAIN last.pre.alphabet)
                + (IF last.op = "add_symbol" THEN 1 ELSE 0)
        /\ KeepsEntries(last.pre.states, dfa.states)
        /\ KeepsEntries(last.pre.alphabet, dfa.alphabet)

\* The part of C40 that holds: the identifier returned is used by no state
\* and no symbol, and is the identifier of exactly one entry afterwards.
C40_IdentifierIsFresh ==
    (cfg.model = "DFAObj" /\ last.op \in {"add_state", "add_symbol"}
            /\ last.error = NoError) =>
        /\ last.value \notin Inverse(last.pre.states) \cup Inverse(last.pre.alphabet)
        /\ Cardinality({k \in DOMAIN dfa.states : dfa.states[k] = last.value})
                + Cardinality({k \in DOMAIN dfa.alphabet : dfa.alphabet[k] = last.value}) = 1

\* ---------------------------------------------------------------------------
\* Pattern models over a run of updates.
\* ---------------------------------------------------------------------------

\* model.contains(chain) on the state the last update was called on.
ContainsBefore(chain) ==
    CASE cfg.model = "PatternSet" -> SetContains(cfg.kind, last.pre, chain)
      [] cfg.model = "PatternTree" -> TreeContains(cfg, last.pre, chain)
      [] OTHER -> GraphContains(cfg, last.pre, chain)

\* C32: for PatternSet, PatternTree and PatternGraph under either matching
\* strategy, a chain that contains reports as known before an update is
\* still reported as known after it, so that it stays known over any
\* further updates.
C32_NeverForgotten ==
    last.op = "update" =>
        \A c \in ModelChains : ContainsBefore(c) => Contains(c)

\* ------------------------------- what NestedWordSet.contains answers true to
\* Two chains are node-wise equivalent: the same length and equal nodes at
\* every depth.
ChainsEquivalent(kind, c1, c2) ==
    /\ Len(c1) = Len(c2)
    /\ \A d \in 0..(Len(c1) - 1) : NodeEq(kind, ChainNode(c1, d), ChainNode(c2, d))

\* Some window of context_size consecutive learned chains is node-wise
\* equivalent to the chains of the query, in the same order.
LearnedEquivalent(chains) ==
    \E w \in LearnedWindows :
        \A i \in 1..Len(chains) : ChainsEquivalent(cfg.kind, w[i], chains[i])

\* self.patterns.contains(chain) of the pattern model of the NestedWordSet.
NwsPatternsContains(chain) ==
    PatternsContains([cfg EXCEPT !.model = cfg.pattern_model], tree, graph, chain)

\* C33: contains(W) is true only if the learned sequence holds context_size
\* consecutive chains that are node-wise equivalent to the chains of W, in
\* the same order.
C33_ContainedOnlyIfLearned ==
    (last.op = "contains" /\ last.error = NoError /\ last.value
        /\ WellFormedArg(cfg.context_size, last.args)) =>
        LearnedEquivalent(last.args.chains)

\* C34: contains(W) is false whenever some chain of W is not contained in the
\* pattern model of the NestedWordSet.
C34_UnknownChainNotContained ==
    (last.op = "contains" /\ last.error = NoError
        /\ WellFormedArg(cfg.context_size, last.args)
        /\ \E i \in 1..Len(last.args.chains) : ~NwsPatternsContains(last.args.chains[i])) =>
        ~last.value

\* --------------------------------------- the LayeredDigraph state machine
\* Vertices added to one LayeredDigraph, and add_edge calls made on it.
MaxVertices == 3
MaxEdgeCalls == 4

\* The properties add_vertex is called with: none (an empty dict).
NoProperties == <<>>

\* LayeredDigraph.__init__; calls counts the add_edge calls.
InitLayered ==
    /\ cfg = [model |-> "LayeredDigraph"]
    /\ nodes = <<>>
    /\ tree = EmptyTree
    /\ graph = EmptyLayered
    /\ nws = EmptyNws
    /\ calls = 0
    /\ matching = NewMatching(0)
    /\ nestedword = EmptyNW
    /\ segmenter = <<>>
    /\ dfa = <<>>
    /\ learned = <<>>
    /\ last = [op |-> "init", from |-> None, to |-> None, raised |-> FALSE,
               pre |-> EmptyLayered]

\* LayeredDigraph.add_vertex()
LayeredDigraphAddVertex ==
    /\ cfg.model = "LayeredDigraph"
    /\ Len(graph.vertices) < MaxVertices
    /\ graph' = LayeredAddVertex(graph, NoProperties)
    /\ last' = [op |-> "add_vertex", from |-> None, to |-> Len(graph.vertices),
                raised |-> FALSE, pre |-> graph]
    /\ UNCHANGED <<cfg, dfa, segmenter, nestedword, nodes, tree, nws, matching, calls,
                   learned>>

\* LayeredDigraph.add_edge(from_v, to_v) between two existing vertices, the
\* same vertex twice included: it raises and leaves the graph alone, or adds
\* the edge and moves the target.
LayeredDigraphAddEdge ==
    /\ cfg.model = "LayeredDigraph"
    /\ calls < MaxEdgeCalls
    /\ \E from \in 0..(Len(graph.vertices) - 1), to \in 0..(Len(graph.vertices) - 1) :
        /\ graph' = IF AddEdgeRaises(graph, from, to) THEN graph
                    ELSE LayeredAddEdge(graph, from, to)
        /\ last' = [op |-> "add_edge", from |-> from, to |-> to,
                    raised |-> AddEdgeRaises(graph, from, to), pre |-> graph]
    /\ calls' = calls + 1
    /\ UNCHANGED <<cfg, dfa, segmenter, nestedword, nodes, tree, nws, matching, learned>>

NextLayered == LayeredDigraphAddVertex \/ LayeredDigraphAddEdge

SpecLayered == InitLayered /\ [][NextLayered]_vars

\* C35: after any sequence of add_vertex and add_edge calls between existing
\* vertices, accepted or rejected, every edge of the LayeredDigraph goes
\* from a vertex of some layer to a vertex of the next layer.
C35_EdgesDescendOneLayer ==
    cfg.model = "LayeredDigraph" =>
        \A v \in 0..(Len(graph.vertices) - 1) :
            \A w \in Outgoing(graph, v) : VLayer(graph, w) = VLayer(graph, v) + 1

\* The same, for the graphs no edge from a vertex to itself was added to.
C35_NoSelfEdgeDescends ==
    (cfg.model = "LayeredDigraph"
        /\ \A v \in 0..(Len(graph.vertices) - 1) : v \notin Outgoing(graph, v)) =>
        \A v \in 0..(Len(graph.vertices) - 1) :
            \A w \in Outgoing(graph, v) : VLayer(graph, w) = VLayer(graph, v) + 1

\* ------------------------------ set_match and remove_match, interleaved
NextSetRemove == MatchSetMatch \/ MatchRemoveMatch

\* A relation that only set_match and remove_match are called on.
SpecSetRemove == InitMatch /\ [][NextSetRemove]_vars

\* The positions of the match remove_match(i) removes from M.
RemovedPositions(M, i) == {GetMatch(M, i)[1], GetMatch(M, i)[2]} \ {None}

\* C36: after any interleaving of set_match and remove_match no two matches
\* that get_matches reports cross, and the positions of a match that
\* remove_match has just removed are internal: neither a call nor a return
\* entry is left on them.
C36_RemoveLeavesNoCrossing ==
    cfg.model = "MatchingRelation" =>
        /\ \A m1 \in GetMatches(matching), m2 \in GetMatches(matching) :
            m1 # m2 => ~Crosses(m1[1], m1[2], m2[1], m2[2])
        /\ (last.op = "remove_match" /\ ~last.raised) =>
            \A p \in RemovedPositions(last.pre, last.args[1]) :
                matching.succ[p + 1] = Unset /\ matching.pred[p + 1] = Unset

\* ------------------- the three pattern models fed the same chains in order
\* update calls made on each of the three models.
MaxRefineUpdates == 3

\* The three models are built over SlopeSignNode, whose equivalence is exact
\* (equal sign tuples) and which PatternSet can hash; the tree and the graph
\* share the matching strategy.
RefineConfigs ==
    {[model |-> "Refinement", kind |-> "SlopeSign", closest |-> b, pattern_model |-> "",
      context_size |-> 0] : b \in BOOLEAN}

\* The chains the three models learn: one payload of either sign at every
\* depth.
RefineChains == {c \in Chains(Lens) : \A i \in 1..Len(c) : c[i] \in {0, 3}}

\* PatternSet(), PatternTree(params) and PatternGraph(params).
InitRefine ==
    /\ cfg \in RefineConfigs
    /\ nodes = <<>>
    /\ tree = EmptyTree
    /\ graph = EmptyLayered
    /\ nws = EmptyNws
    /\ calls = 0
    /\ matching = NewMatching(0)
    /\ nestedword = EmptyNW
    /\ segmenter = <<>>
    /\ dfa = <<>>
    /\ learned = <<>>
    /\ last = NoCall

\* update(chain) on the set, the tree and the graph, with the same chain.
RefineUpdate ==
    /\ cfg.model = "Refinement"
    /\ calls < MaxRefineUpdates
    /\ \E chain \in RefineChains :
       \E g \in {GraphUpdate(cfg, graph, chain)} :
        /\ nodes' = SetUpdate(cfg.kind, nodes, chain)[1]
        /\ tree' = TreeUpdate(cfg, tree, chain)[1]
        /\ graph' = g.graph
        /\ learned' = Append(learned, chain)
        /\ last' = [op |-> "update", model |-> cfg.model, chain |-> chain,
                    ret |-> g.vertices, raised |-> g.raised, pre |-> <<>>]
    /\ calls' = calls + 1
    /\ UNCHANGED <<cfg, segmenter, dfa, nestedword, matching, nws>>

NextRefine == RefineUpdate

SpecRefine == InitRefine /\ [][NextRefine]_vars

\* C37: fed the same chains in the same order, under an exact node
\* equivalence, every chain the PatternTree contains is contained in the
\* PatternGraph, and every chain the PatternGraph contains is contained in
\* the PatternSet.
C37_TreeGraphSetRefinement ==
    cfg.model = "Refinement" =>
        \A c \in ModelChains :
            /\ TreeContains(cfg, tree, c) => GraphContains(cfg, graph, c)
            /\ GraphContains(cfg, graph, c) => SetContains(cfg.kind, nodes, c)

\* Three chains were learned, and both inclusions are strict: the graph
\* contains a chain the tree does not, and the set one the graph does not.
C37_Witness ==
    /\ cfg.model = "Refinement" /\ last.op = "update" /\ ~last.raised
    /\ \E c \in ModelChains : TreeContains(cfg, tree, c)
    /\ \E c \in ModelChains :
        GraphContains(cfg, graph, c) /\ ~TreeContains(cfg, tree, c)
    /\ \E c \in ModelChains :
        SetContains(cfg.kind, nodes, c) /\ ~GraphContains(cfg, graph, c)

\* ------------------------------------------------ update(c) called twice
\* What a second update(chain) changes and returns, called directly after
\* the update the state was reached by: [same, ret].
UpdateAgain(chain) ==
    IF cfg.model = "PatternTree"
    THEN [same |-> TreeUpdate(cfg, tree, chain)[1] = tree,
          ret |-> TreeUpdate(cfg, tree, chain)[2]]
    ELSE [same |-> GraphUpdate(cfg, graph, chain).graph = graph,
          ret |-> GraphUpdate(cfg, graph, chain).vertices]

\* C38: for PatternTree and PatternGraph, update(c) called again directly
\* after update(c) adds no vertex and no edge, and returns the vertex ids the
\* first call returned.
C38_UpdateTwice ==
    (cfg.model \in {"PatternTree", "PatternGraph"} /\ last.op = "update" /\ ~last.raised) =>
        /\ UpdateAgain(last.chain).same
        /\ UpdateAgain(last.chain).ret = last.ret

\* --------------------------------------------- the cover of the test points
\* C39: when step_size <= window_size and the test series is at least one
\* window long, every test point lies in at least one test window:
\* counts[t] >= 1 for every point t.
C39_EveryPointCovered ==
    ("max_depth" \in DOMAIN cfg /\ last.op = "hpm" /\ last.error = NoError
        /\ segmenter.step_size <= segmenter.window_size
        /\ Len(last.test) >= segmenter.window_size) =>
        \A t \in 1..Len(last.test) : last.counts[t] >= 1

\* The same, for the runs in which the windows are cut from the test series
\* itself, the last window ends at the last point, and a NestedWordSet is
\* given at least one context.
C39_CoveredWhenStepsFit ==
    ("max_depth" \in DOMAIN cfg /\ last.op = "hpm" /\ last.error = NoError
        /\ segmenter.step_size <= segmenter.window_size
        /\ Len(last.test) >= segmenter.window_size
        /\ ~segmenter.differentiation
        /\ (Len(last.test) - segmenter.window_size) % segmenter.step_size = 0
        /\ TestUnits # {}) =>
        \A t \in 1..Len(last.test) : last.counts[t] >= 1
====
